---- MODULE Spec2Model ----
(***************************************************************************)
(* Provider selection and dispatch layer of the chat gateway.              *)
(*                                                                         *)
(*   ProviderManager  (services/ProviderManager.ts, src/unnamed/part_002)  *)
(*   G4FService       (src/src/services/G4FService.ts)                     *)
(*                                                                         *)
(* The registry client (roster cache and probe of G4FService) is modelled   *)
(* with two callers whose calls interleave at every await.                  *)
(* The manager is modelled against its injected registry client: every     *)
(* roster call answers with some roster (or rejects), as the jest mock of  *)
(* ProviderManager.test.ts does, and every probe with some status.  In     *)
(* SpecManager each awaited call returns before the next operation starts. *)
(* Time is a logical clock, advanced while a send is under way.            *)
(***************************************************************************)
EXTENDS Integers, Sequences, FiniteSets, Bags, TLC

VARIABLES
    providerHealth,      \* ProviderManager.providerHealth : Map<string, ProviderHealthStatus>
    selectionStrategy,   \* ProviderManager.selectionStrategy (kind + RoundRobinStrategy.currentIndex)
    healthCheckTimer,    \* ProviderManager.healthCheckTimer is set
    intervals,           \* number of setInterval timers of the manager that are pending
    now,                 \* Date.now(), logical clock
    lastCall,            \* the last manager operation, its arguments and what it returned
    sendPc,              \* position of the sendToProvider call in progress
    attempt,             \* sendToProvider: loop variable `attempt`
    lastError,           \* sendToProvider: local `lastError`
    provider,            \* sendToProvider: argument `provider`
    posts,               \* outcomes of the client.post('/chat') calls of this send, in order
    delays,              \* arguments of the this.delay(ms) calls of this send, in order
    inFlight,            \* attempts whose client.post('/chat') is issued and not yet settled
    sendResult,          \* what sendToProvider resolved to
    peer,                \* a second sendToProvider call in progress beside the first
    providersCache,      \* G4FService.providersCache
    cacheExpiry,         \* G4FService.cacheExpiry
    calls,               \* the registry call of each caller: where it stands, what it returned
    sweep,               \* the performHealthCheck in progress: where it stands, its probes
    flights,             \* timer ticks so far, sweeps awaiting their roster, probes in flight
    instance,            \* a strategy object called on its own: kind, currentIndex, priorityOrder
    select,              \* the last selectProvider call on that instance: input and result
    run                  \* results of its latest consecutive calls with one available list

pmVars   == <<providerHealth, selectionStrategy, healthCheckTimer, intervals, now, lastCall>>
sendVars == <<sendPc, attempt, lastError, provider, posts, delays, inFlight, sendResult, peer>>
regVars  == <<providersCache, cacheExpiry, calls>>
sweepVars == <<sweep>>
flightVars == <<flights>>
stratVars == <<instance, select, run>>
vars     == <<providerHealth, selectionStrategy, healthCheckTimer, intervals, now, lastCall,
              sendPc, attempt, lastError, provider, posts, delays, inFlight, sendResult, peer,
              providersCache, cacheExpiry, calls, sweep, flights, instance, select, run>>

----------------------------------------------------------------------------
(* Bounds of the model *)

MaxFailures == 3      \* consecutiveFailures is not driven beyond this value
MaxTime     == 2      \* the clock stops here
MaxTicks    == 2      \* the timer fires this often
MaxInFlight == 2      \* this many probes are in flight together
MaxThreshold == 4     \* maxConsecutiveFailures options from 1 up to this value are compared
MaxLifetimes == 2     \* the registry client is followed over this many cache lifetimes

(* Program constants *)

maxConsecutiveFailures == 3
maxRetries == 3
retryDelay == 1000
cacheTTL == 300000     \* 5 * 60 * 1000

----------------------------------------------------------------------------
(* Values *)

Null      == "null"
Undefined == "undefined"

ProviderIds == {"p1", "bing"}
Statuses    == {"available", "unavailable", "rate_limited"}
Errors      == {Undefined, "Connection failed"}

\* a Provider of @shared/types; name, lastChecked and model are carried along
\* untouched by every operation below and are left out
Provider(id, status) == [id |-> id, status |-> status]

\* rosters: sequences of providers with pairwise distinct ids
Rosters ==
    LET one == { <<Provider(i, s)>> : i \in ProviderIds, s \in Statuses }
        two == { r \in { x \o y : x \in one, y \in one } : r[1].id # r[2].id }
    IN  {<<>>} \cup one \cup two

\* answers of g4fService.getAvailableProviders(): a roster, or a rejection
RosterAnswers ==
    { [ok |-> TRUE, providers |-> r] : r \in Rosters } \cup { [ok |-> FALSE, providers |-> <<>>] }

Ids(seq) == { seq[i].id : i \in 1..Len(seq) }

\* null, where a Provider is expected
NoProvider == Provider(Null, Null)

RECURSIVE Find(_, _)
\* Array.prototype.find by id: the first provider of seq with this id
Find(seq, id) ==
    IF seq = <<>> THEN NoProvider
    ELSE IF Head(seq).id = id THEN Head(seq) ELSE Find(Tail(seq), id)

RECURSIVE Filter(_, _)
\* Array.prototype.filter with the predicate given as the set of elements it accepts
Filter(seq, keep) ==
    IF seq = <<>> THEN <<>>
    ELSE (IF Head(seq) \in keep THEN <<Head(seq)>> ELSE <<>>) \o Filter(Tail(seq), keep)

Range(seq) == { seq[i] : i \in 1..Len(seq) }

----------------------------------------------------------------------------
(* Health tracker *)

Has(h, id) == id \in DOMAIN h

Failures(h, id) == IF Has(h, id) THEN h[id].consecutiveFailures ELSE 0

\* updateProviderHealth without the reset on success
updateProviderHealth_NoReset(h, providerId, isHealthy, error, t) ==
    LET updated == [ providerId          |-> providerId,
                     isHealthy           |-> isHealthy,
                     lastChecked         |-> t,
                     consecutiveFailures |-> IF isHealthy THEN Failures(h, providerId)
                                             ELSE Failures(h, providerId) + 1,
                     error               |-> IF isHealthy THEN Undefined ELSE error ]
    IN  [ x \in DOMAIN h \cup {providerId} |-> IF x = providerId THEN updated ELSE h[x] ]

\* updateProviderHealth that forgets the failures already counted
updateProviderHealth_ForgetsCount(h, providerId, isHealthy, error, t) ==
    LET updated == [ providerId          |-> providerId,
                     isHealthy           |-> isHealthy,
                     lastChecked         |-> t,
                     consecutiveFailures |-> IF isHealthy THEN 0 ELSE 1,
                     error               |-> IF isHealthy THEN Undefined ELSE error ]
    IN  [ x \in DOMAIN h \cup {providerId} |-> IF x = providerId THEN updated ELSE h[x] ]

\* updateProviderHealth that starts a new map with the one record
updateProviderHealth_DropsOthers(h, providerId, isHealthy, error, t) ==
    LET updated == [ providerId          |-> providerId,
                     isHealthy           |-> isHealthy,
                     lastChecked         |-> t,
                     consecutiveFailures |-> IF isHealthy THEN 0 ELSE Failures(h, providerId) + 1,
                     error               |-> IF isHealthy THEN Undefined ELSE error ]
    IN  [ x \in {providerId} |-> updated ]

\* updateProviderHealth that carries the error of the old record over to a
\* success
updateProviderHealth_KeepsError(h, providerId, isHealthy, error, t) ==
    LET updated == [ providerId          |-> providerId,
                     isHealthy           |-> isHealthy,
                     lastChecked         |-> t,
                     consecutiveFailures |-> IF isHealthy THEN 0 ELSE Failures(h, providerId) + 1,
                     error               |-> IF isHealthy
                                             THEN (IF Has(h, providerId) THEN h[providerId].error
                                                   ELSE Undefined)
                                             ELSE error ]
    IN  [ x \in DOMAIN h \cup {providerId} |-> IF x = providerId THEN updated ELSE h[x] ]

updateProviderHealth(h, providerId, isHealthy, error, t) ==
    LET updated == [ providerId          |-> providerId,
                     isHealthy           |-> isHealthy,
                     lastChecked         |-> t,
                     consecutiveFailures |-> IF isHealthy THEN 0 ELSE Failures(h, providerId) + 1,
                     error               |-> IF isHealthy THEN Undefined ELSE error ]
    IN  [ x \in DOMAIN h \cup {providerId} |-> IF x = providerId THEN updated ELSE h[x] ]

\* isProviderHealthy that takes a missing record for an unhealthy provider
isProviderHealthy_PessimisticDefault(h, providerId) ==
    IF ~Has(h, providerId) THEN FALSE
    ELSE h[providerId].isHealthy /\ h[providerId].consecutiveFailures < maxConsecutiveFailures

\* isProviderHealthy that looks at the counter only
isProviderHealthyUnder_CounterOnly(max, h, providerId) ==
    IF ~Has(h, providerId) THEN TRUE
    ELSE h[providerId].consecutiveFailures < max

\* isProviderHealthy of a manager constructed with maxConsecutiveFailures: max
isProviderHealthyUnder(max, h, providerId) ==
    IF ~Has(h, providerId) THEN TRUE
    ELSE h[providerId].isHealthy /\ h[providerId].consecutiveFailures < max

isProviderHealthy(h, providerId) == isProviderHealthyUnder(maxConsecutiveFailures, h, providerId)

----------------------------------------------------------------------------
(* Selection strategies.  Each yields the set of possible outcomes          *)
(* [result, currentIndex] of one selectProvider call on the strategy.       *)

priorityOrder == <<"bing", "chatgptai", "you", "freegpt">>

Available(providers) == Filter(providers, { p \in Range(providers) : p.status = "available" })

\* a round robin that leaves its cursor where it is
RoundRobinStrategy_NoAdvance(currentIndex, providers) ==
    LET availableProviders == Available(providers)
        n == Len(availableProviders)
    IN  IF n = 0 THEN { [result |-> NoProvider, currentIndex |-> currentIndex] }
        ELSE { [result |-> availableProviders[(currentIndex % n) + 1],
                currentIndex |-> currentIndex] }

\* a round robin whose cursor is not reduced modulo the number of providers
RoundRobinStrategy_NoWrap(currentIndex, providers) ==
    LET availableProviders == Available(providers)
        n == Len(availableProviders)
    IN  IF n = 0 THEN { [result |-> NoProvider, currentIndex |-> currentIndex] }
        ELSE { [result |-> availableProviders[(currentIndex % n) + 1],
                currentIndex |-> currentIndex + 1] }

RoundRobinStrategy(currentIndex, providers) ==
    LET availableProviders == Available(providers)
        n == Len(availableProviders)
    IN  IF n = 0 THEN { [result |-> NoProvider, currentIndex |-> currentIndex] }
        ELSE { [result |-> availableProviders[(currentIndex % n) + 1],
                currentIndex |-> (currentIndex + 1) % n] }

\* a random choice among all the providers given, available or not
RandomStrategy_AnyProvider(currentIndex, providers) ==
    IF Len(providers) = 0 THEN { [result |-> NoProvider, currentIndex |-> currentIndex] }
    ELSE { [result |-> providers[randomIndex + 1],
            currentIndex |-> currentIndex] : randomIndex \in 0..(Len(providers) - 1) }

RandomStrategy(currentIndex, providers) ==
    LET availableProviders == Available(providers)
        n == Len(availableProviders)
    IN  IF n = 0 THEN { [result |-> NoProvider, currentIndex |-> currentIndex] }
        ELSE { [result |-> availableProviders[randomIndex + 1],
                currentIndex |-> currentIndex] : randomIndex \in 0..(n - 1) }

RECURSIVE FirstByPriority(_, _)
\* the for loop over priorityOrder: the first id of the list found among the providers
FirstByPriority(order, availableProviders) ==
    IF order = <<>> THEN NoProvider
    ELSE IF Head(order) \in Ids(availableProviders)
         THEN Find(availableProviders, Head(order))
         ELSE FirstByPriority(Tail(order), availableProviders)

\* a priority strategy that takes the first available provider, listed or not
PriorityStrategyOf_FirstAvailable(order, currentIndex, providers) ==
    LET availableProviders == Available(providers)
    IN  IF Len(availableProviders) = 0 THEN { [result |-> NoProvider, currentIndex |-> currentIndex] }
        ELSE { [result |-> availableProviders[1], currentIndex |-> currentIndex] }

\* PriorityStrategy.selectProvider of an instance built with this priorityOrder
PriorityStrategyOf(order, currentIndex, providers) ==
    LET availableProviders == Available(providers)
        byPriority == FirstByPriority(order, availableProviders)
    IN  IF Len(availableProviders) = 0 THEN { [result |-> NoProvider, currentIndex |-> currentIndex] }
        ELSE IF byPriority # NoProvider THEN { [result |-> byPriority, currentIndex |-> currentIndex] }
        ELSE { [result |-> availableProviders[1], currentIndex |-> currentIndex] }

\* new PriorityStrategy(): the default priorityOrder
PriorityStrategy(currentIndex, providers) == PriorityStrategyOf(priorityOrder, currentIndex, providers)

StrategyKinds == {"PriorityStrategy", "RoundRobinStrategy", "RandomStrategy"}

\* this.selectionStrategy.selectProvider(providers)
StrategySelect(strategy, providers) ==
    CASE strategy.kind = "RoundRobinStrategy" -> RoundRobinStrategy(strategy.currentIndex, providers)
      [] strategy.kind = "RandomStrategy"     -> RandomStrategy(strategy.currentIndex, providers)
      [] OTHER                                 -> PriorityStrategy(strategy.currentIndex, providers)

----------------------------------------------------------------------------
(* ProviderManager: the synchronous part of each method, as operators      *)

\* getAvailableProviders, from the answer of g4fService.getAvailableProviders():
\* the providers returned and the health map left behind
RECURSIVE SyncHealth(_, _, _)
SyncHealth(h, providers, t) ==
    IF providers = <<>> THEN h
    ELSE SyncHealth(updateProviderHealth(h, Head(providers).id,
                                         Head(providers).status = "available", Undefined, t),
                    Tail(providers), t)

\* getAvailableProviders without its try/catch
getAvailableProviders_Propagates(h, answer, t) ==
    IF ~answer.ok
    THEN [providers |-> <<>>, health |-> h, threw |-> TRUE]
    ELSE [providers |-> answer.providers, health |-> SyncHealth(h, answer.providers, t),
          threw |-> FALSE]

getAvailableProviders(h, answer, t) ==
    IF ~answer.ok
    THEN [providers |-> <<>>, health |-> h, threw |-> FALSE]
    ELSE [providers |-> answer.providers, health |-> SyncHealth(h, answer.providers, t),
          threw |-> FALSE]

\* the filter of selectProvider and getFallbackProviders
HealthyProviders(h, providers) ==
    Filter(providers, { p \in Range(providers) :
                          p.status = "available" /\ isProviderHealthy(h, p.id) })

HealthyProvidersUnder(max, h, providers) ==
    Filter(providers, { p \in Range(providers) :
                          p.status = "available" /\ isProviderHealthyUnder(max, h, p.id) })

\* selectProvider that returns the preferred provider whenever the roster lists it
selectProvider_PreferredUnchecked(h, strategy, providers, preferredProvider) ==
    LET preferred == { p \in Range(providers) : p.id = preferredProvider }
        healthyProviders == HealthyProviders(h, providers)
    IN  IF preferredProvider # Null /\ preferred # {}
        THEN { [result |-> Find(providers, preferredProvider),
                 currentIndex |-> strategy.currentIndex] }
        ELSE IF Len(healthyProviders) = 0
        THEN { [result |-> NoProvider, currentIndex |-> strategy.currentIndex] }
        ELSE StrategySelect(strategy, healthyProviders)

\* selectProvider that returns null when the preferred provider cannot be used
selectProvider_NoFallThrough(h, strategy, providers, preferredProvider) ==
    LET preferred == { p \in Range(providers) :
                         /\ p.id = preferredProvider
                         /\ p.status = "available"
                         /\ isProviderHealthy(h, preferredProvider) }
        healthyProviders == HealthyProviders(h, providers)
    IN  IF preferredProvider # Null /\ preferred # {}
        THEN { [result |-> Find(providers, preferredProvider),
                 currentIndex |-> strategy.currentIndex] }
        ELSE IF preferredProvider # Null \/ Len(healthyProviders) = 0
        THEN { [result |-> NoProvider, currentIndex |-> strategy.currentIndex] }
        ELSE StrategySelect(strategy, healthyProviders)

\* selectProvider after the roster has been fetched: the possible
\* [result, currentIndex] outcomes
\* selectProvider that lets the strategy choose first and then hands out the
\* preferred provider
selectProvider_StrategyRunsFirst(h, strategy, providers, preferredProvider) ==
    LET preferred == { p \in Range(providers) :
                         /\ p.id = preferredProvider
                         /\ p.status = "available"
                         /\ isProviderHealthy(h, preferredProvider) }
        healthyProviders == HealthyProviders(h, providers)
    IN  IF preferredProvider # Null /\ preferred # {}
        THEN { [result |-> Find(providers, preferredProvider),
                 currentIndex |-> o.currentIndex] : o \in StrategySelect(strategy, healthyProviders) }
        ELSE IF Len(healthyProviders) = 0
        THEN { [result |-> NoProvider, currentIndex |-> strategy.currentIndex] }
        ELSE StrategySelect(strategy, healthyProviders)

\* selectProvider of a manager constructed with maxConsecutiveFailures: max
selectProviderUnder(max, h, strategy, providers, preferredProvider) ==
    LET preferred == { p \in Range(providers) :
                         /\ p.id = preferredProvider
                         /\ p.status = "available"
                         /\ isProviderHealthyUnder(max, h, preferredProvider) }
        healthyProviders == HealthyProvidersUnder(max, h, providers)
    IN  IF preferredProvider # Null /\ preferred # {}
        THEN { [result |-> Find(providers, preferredProvider),
                 currentIndex |-> strategy.currentIndex] }
        ELSE IF Len(healthyProviders) = 0
        THEN { [result |-> NoProvider, currentIndex |-> strategy.currentIndex] }
        ELSE StrategySelect(strategy, healthyProviders)

selectProvider(h, strategy, providers, preferredProvider) ==
    selectProviderUnder(maxConsecutiveFailures, h, strategy, providers, preferredProvider)

RECURSIVE InsertByFailures(_, _, _)
\* stable insertion: p goes after every element with no more failures than p
InsertByFailures(h, sorted, p) ==
    IF sorted = <<>> THEN <<p>>
    ELSE IF Failures(h, Head(sorted).id) - Failures(h, p.id) > 0
         THEN <<p>> \o sorted
         ELSE <<Head(sorted)>> \o InsertByFailures(h, Tail(sorted), p)

RECURSIVE SortByFailures(_, _, _)
\* Array.prototype.sort (stable) with the comparator failuresA - failuresB
SortByFailures(h, done, rest) ==
    IF rest = <<>> THEN done
    ELSE SortByFailures(h, InsertByFailures(h, done, Head(rest)), Tail(rest))

\* getFallbackProviders that does not take the excluded ids out
getFallbackProviders_IgnoresExclude(h, providers, excludeProviders) ==
    LET kept == Filter(providers, { p \in Range(providers) :
                                      /\ p.status = "available"
                                      /\ isProviderHealthy(h, p.id) })
    IN  SortByFailures(h, <<>>, kept)

\* getFallbackProviders of a manager constructed with maxConsecutiveFailures: max
getFallbackProvidersUnder(max, h, providers, excludeProviders) ==
    LET kept == Filter(providers, { p \in Range(providers) :
                                      /\ p.id \notin excludeProviders
                                      /\ p.status = "available"
                                      /\ isProviderHealthyUnder(max, h, p.id) })
    IN  SortByFailures(h, <<>>, kept)

getFallbackProviders(h, providers, excludeProviders) ==
    getFallbackProvidersUnder(maxConsecutiveFailures, h, providers, excludeProviders)

----------------------------------------------------------------------------
(* ProviderManager: state machine                                           *)

NoRecord == [providerId |-> Null]

RecordOf(h, id) == IF Has(h, id) THEN h[id] ELSE NoRecord

\* what lastCall remembers of an operation:
\*   op     the method,              id     its providerId / preferredProvider
\*   error  its error argument or the error reported by the probe
\*   pre    the health record of id when the operation began
\*   roster the providers the registry client answered with (failed: it rejected)
\*   result the provider returned (NoProvider: none),  list: the providers returned
\*          (testProviderHealth: the health record returned, getStatistics: the figures)
\*   answer (testProviderHealth only) what g4fService.testProvider answered
\*   excludeProviders (getFallbackProviders only) its argument
\*   threw  the method threw, or its promise rejected
Call(op, id, error, pre, roster, failed, result, list, threw) ==
    [op |-> op, id |-> id, error |-> error, pre |-> pre, roster |-> roster,
     failed |-> failed, result |-> result, list |-> list, threw |-> threw]

Bounded(h) == \A id \in DOMAIN h : h[id].consecutiveFailures <= MaxFailures

PreferredChoices == ProviderIds \cup {Null}

\* excludeProviders arguments of getFallbackProviders: the default [], the
\* provider that just failed, every provider
ExcludeChoices == {{}, {"p1"}, ProviderIds}

ProbeThrows == "throws"

\* answers of g4fService.testProvider: a status with its error, or a rejection
ProbeAnswers ==
    { [status |-> "available",    error |-> Undefined],
      [status |-> "unavailable",  error |-> "Connection failed"],
      [status |-> "unavailable",  error |-> Undefined],
      [status |-> "rate_limited", error |-> Undefined],
      [status |-> ProbeThrows,    error |-> "Connection failed"] }

\* stopPeriodicHealthCheck that forgets the timer without clearing it
stopPeriodicHealthCheck_NoClear(timer, pending) == pending

\* startPeriodicHealthCheck that does not clear the timer it replaces
startPeriodicHealthCheck_NoClear(timer, pending) == pending + 1

\* startPeriodicHealthCheck: clearInterval of the timer held, if any, then
\* setInterval; the number of pending interval timers it leaves
startPeriodicHealthCheck(timer, pending) == (IF timer THEN pending - 1 ELSE pending) + 1

\* stopPeriodicHealthCheck: clearInterval of the timer held, if any
stopPeriodicHealthCheck(timer, pending) == IF timer THEN pending - 1 ELSE pending

InitManager ==
    /\ providerHealth = <<>>
    /\ selectionStrategy \in { [kind |-> k, currentIndex |-> 0] : k \in StrategyKinds }
    /\ healthCheckTimer \in BOOLEAN      \* options.enableHealthCheck !== false
    /\ intervals = IF healthCheckTimer THEN startPeriodicHealthCheck(FALSE, 0) ELSE 0
    /\ now = 0
    /\ lastCall = Call("constructor", Null, Undefined, NoRecord, <<>>, FALSE, NoProvider, <<>>, FALSE)

GetAvailableProviders ==
    \E answer \in RosterAnswers :
        LET g == getAvailableProviders(providerHealth, answer, now)
        IN  /\ Bounded(g.health)
            /\ providerHealth' = g.health
            /\ lastCall' = Call("getAvailableProviders", Null, Undefined, NoRecord,
                                answer.providers, ~answer.ok, NoProvider, g.providers, g.threw)
            /\ UNCHANGED <<selectionStrategy, healthCheckTimer, intervals, now>>
            /\ UNCHANGED <<sendVars, regVars, sweepVars, flightVars, stratVars>>

SelectProvider ==
    \E answer \in RosterAnswers, preferredProvider \in PreferredChoices :
        LET g == getAvailableProviders(providerHealth, answer, now)
        IN  /\ Bounded(g.health)
            /\ \E o \in selectProvider(g.health, selectionStrategy, g.providers, preferredProvider) :
                  /\ selectionStrategy' = [selectionStrategy EXCEPT !.currentIndex = o.currentIndex]
                  /\ lastCall' = Call("selectProvider", preferredProvider, Undefined, NoRecord,
                                      answer.providers, ~answer.ok, o.result, <<>>, g.threw)
            /\ providerHealth' = g.health
            /\ UNCHANGED <<healthCheckTimer, intervals, now>>
            /\ UNCHANGED <<sendVars, regVars, sweepVars, flightVars, stratVars>>

GetFallbackProviders ==
    \E answer \in RosterAnswers, excludeProviders \in ExcludeChoices :
        LET g == getAvailableProviders(providerHealth, answer, now)
        IN  /\ Bounded(g.health)
            /\ providerHealth' = g.health
            /\ lastCall' = Call("getFallbackProviders", Null, Undefined, NoRecord,
                                answer.providers, ~answer.ok, NoProvider,
                                getFallbackProviders(g.health, g.providers, excludeProviders), g.threw)
                            @@ [excludeProviders |-> excludeProviders]
            /\ UNCHANGED <<selectionStrategy, healthCheckTimer, intervals, now>>
            /\ UNCHANGED <<sendVars, regVars, sweepVars, flightVars, stratVars>>

SetSelectionStrategy ==
    \E k \in StrategyKinds :
        /\ selectionStrategy' = [kind |-> k, currentIndex |-> 0]
        /\ lastCall' = Call("setSelectionStrategy", Null, Undefined, NoRecord, <<>>, FALSE,
                            NoProvider, <<>>, FALSE)
        /\ UNCHANGED <<providerHealth, healthCheckTimer, intervals, now>>
        /\ UNCHANGED <<sendVars, regVars, sweepVars, flightVars, stratVars>>

\* selectProvider(providers) called on the strategy object of the manager by
\* whoever holds it
CallStrategy ==
    \E providers \in Rosters :
        \E o \in StrategySelect(selectionStrategy, providers) :
            /\ selectionStrategy' = [selectionStrategy EXCEPT !.currentIndex = o.currentIndex]
            /\ lastCall' = Call("strategy.selectProvider", Null, Undefined, NoRecord,
                                providers, FALSE, o.result, <<>>, FALSE)
            /\ UNCHANGED <<providerHealth, healthCheckTimer, intervals, now>>
            /\ UNCHANGED <<sendVars, regVars, sweepVars, flightVars, stratVars>>

MarkProviderFailure ==
    \E providerId \in ProviderIds, error \in Errors :
        /\ Failures(providerHealth, providerId) < MaxFailures
        /\ providerHealth' = updateProviderHealth(providerHealth, providerId, FALSE, error, now)
        /\ lastCall' = Call("markProviderFailure", providerId, error,
                            RecordOf(providerHealth, providerId), <<>>, FALSE, NoProvider, <<>>, FALSE)
        /\ UNCHANGED <<selectionStrategy, healthCheckTimer, intervals, now>>
        /\ UNCHANGED <<sendVars, regVars, sweepVars, flightVars, stratVars>>

MarkProviderSuccess ==
    \E providerId \in ProviderIds :
        /\ providerHealth' = updateProviderHealth(providerHealth, providerId, TRUE, Undefined, now)
        /\ lastCall' = Call("markProviderSuccess", providerId, Undefined,
                            RecordOf(providerHealth, providerId), <<>>, FALSE, NoProvider, <<>>, FALSE)
        /\ UNCHANGED <<selectionStrategy, healthCheckTimer, intervals, now>>
        /\ UNCHANGED <<sendVars, regVars, sweepVars, flightVars, stratVars>>

\* what testProviderHealth records once the probe has answered or rejected
Probed(h, providerId, answer, t) ==
    updateProviderHealth(h, providerId, answer.status = "available", answer.error, t)

\* testProviderHealth that lets a rejection of the probe escape
testProviderHealth_Rethrows(h, providerId, answer, t) ==
    IF answer.status = ProbeThrows
    THEN [health |-> h, result |-> NoRecord, threw |-> TRUE]
    ELSE LET updated == Probed(h, providerId, answer, t)
         IN  [health |-> updated, result |-> updated[providerId], threw |-> FALSE]

\* testProviderHealth: [health, result, threw]: the records afterwards, the
\* record returned, whether the promise rejected
testProviderHealth(h, providerId, answer, t) ==
    LET updated == Probed(h, providerId, answer, t)
    IN  [health |-> updated, result |-> updated[providerId], threw |-> FALSE]

ProbeOp(answer) == IF answer.status = "available" THEN "probeSuccess" ELSE "probeFailure"

\* testProviderHealth, from call to return, with no other operation in between
TestProviderHealth ==
    \E providerId \in ProviderIds, answer \in ProbeAnswers :
        LET r == testProviderHealth(providerHealth, providerId, answer, now)
        IN  /\ answer.status = "available" \/ Failures(providerHealth, providerId) < MaxFailures
            /\ providerHealth' = r.health
            /\ lastCall' = Call(ProbeOp(answer), providerId, answer.error,
                                RecordOf(providerHealth, providerId), <<>>,
                                answer.status = ProbeThrows, r.result, <<>>, r.threw)
                            @@ [answer |-> answer]
        /\ UNCHANGED <<selectionStrategy, healthCheckTimer, intervals, now>>
        /\ UNCHANGED <<sendVars, regVars, sweepVars, flightVars, stratVars>>

StartPeriodicHealthCheck ==
    /\ healthCheckTimer' = TRUE
    /\ intervals' = startPeriodicHealthCheck(healthCheckTimer, intervals)
    /\ lastCall' = Call("startPeriodicHealthCheck", Null, Undefined, NoRecord, <<>>, FALSE,
                        NoProvider, <<>>, FALSE)
    /\ UNCHANGED <<providerHealth, selectionStrategy, now>>
    /\ UNCHANGED <<sendVars, regVars, sweepVars, flightVars, stratVars>>

StopPeriodicHealthCheck ==
    /\ healthCheckTimer' = FALSE
    /\ intervals' = stopPeriodicHealthCheck(healthCheckTimer, intervals)
    /\ lastCall' = Call("stopPeriodicHealthCheck", Null, Undefined, NoRecord, <<>>, FALSE,
                        NoProvider, <<>>, FALSE)
    /\ UNCHANGED <<providerHealth, selectionStrategy, now>>
    /\ UNCHANGED <<sendVars, regVars, sweepVars, flightVars, stratVars>>

Destroy ==
    /\ healthCheckTimer' = FALSE
    /\ intervals' = stopPeriodicHealthCheck(healthCheckTimer, intervals)
    /\ providerHealth' = <<>>
    /\ lastCall' = Call("destroy", Null, Undefined, NoRecord, <<>>, FALSE, NoProvider, <<>>, FALSE)
    /\ UNCHANGED <<selectionStrategy, now>>
    /\ UNCHANGED <<sendVars, regVars, sweepVars, flightVars, stratVars>>

\* the manager used by one caller at a time: every awaited call returns
\* before the next operation starts
NextManager ==
    \/ MarkProviderFailure
    \/ MarkProviderSuccess
    \/ TestProviderHealth
    \/ SelectProvider
    \/ GetAvailableProviders
    \/ GetFallbackProviders
    \/ SetSelectionStrategy
    \/ StartPeriodicHealthCheck
    \/ StopPeriodicHealthCheck
    \/ Destroy

----------------------------------------------------------------------------
(* G4FService.sendToProvider                                                *)
(*                                                                          *)
(* A string is the sequence of its words, '' and undefined are <<>>;        *)
(* toLowerCase maps each word, includes looks for a run of words.           *)

ToLowerCase(str) ==
    [ i \in 1..Len(str) |->
        CASE str[i] = "Rate"     -> "rate"
          [] str[i] = "Limit"    -> "limit"
          [] str[i] = "Too"      -> "too"
          [] str[i] = "Many"     -> "many"
          [] str[i] = "Requests" -> "requests"
          [] str[i] = "Network"  -> "network"
          [] str[i] = "Error"    -> "error"
          [] str[i] = "Timeout"  -> "timeout"
          [] str[i] = "Provider" -> "provider"
          [] str[i] = "Bad"      -> "bad"
          [] str[i] = "Connection" -> "connection"
          [] OTHER               -> str[i] ]

Includes(str, pat) ==
    \E i \in 1..(Len(str) - Len(pat) + 1) : SubSeq(str, i, i + Len(pat) - 1) = pat

\* what the catch block sees: message, code, response.status (0: no response)
\* and response.data.error
ErrorObj(message, code, status, dataError) ==
    [message |-> message, code |-> code, status |-> status, dataError |-> dataError]

NoError == [isNull |-> TRUE]       \* lastError = null

\* a settled client.post('/chat'): a response with its body (success, error,
\* provider), or a rejection with the error object
Response(success, error) ==
    [kind |-> "response", success |-> success, error |-> error,
     message |-> <<>>, code |-> Undefined, status |-> 200]
Rejection(message, code, status, dataError) ==
    [kind |-> "rejection", success |-> FALSE, error |-> dataError,
     message |-> message, code |-> code, status |-> status]

StatusMessage(n) == <<"Request", "failed", "with", "status", "code", n>>

PostOutcomes ==
    { Response(TRUE, <<>>),
      Response(FALSE, <<"Provider", "not", "available">>),
      Response(FALSE, <<"Rate", "limit", "exceeded">>),
      Response(FALSE, <<"Provider", "timeout">>),
      Response(FALSE, <<>>),
      Rejection(StatusMessage("429"), "ERR_BAD_REQUEST", 429, <<>>),
      Rejection(StatusMessage("500"), "ERR_BAD_RESPONSE", 500, <<"Too", "Many", "Requests">>),
      Rejection(<<"Bad", "request">>, Undefined, 400, <<"Bad", "request">>),
      Rejection(<<"Connection", "refused">>, "ECONNREFUSED", 0, <<>>),
      Rejection(<<"getaddrinfo", "ENOTFOUND">>, "ENOTFOUND", 0, <<>>),
      Rejection(<<"Network", "Error">>, Undefined, 0, <<>>),
      Rejection(<<"timeout", "of", "30000ms", "exceeded">>, "ECONNABORTED", 0, <<>>),
      Rejection(<<>>, Undefined, 0, <<>>) }

\* the error caught after a post that did not return a success body: the
\* rejection itself, or the Error thrown for a body with success = false
Caught(outcome) ==
    IF outcome.kind = "rejection"
    THEN ErrorObj(outcome.message, outcome.code, outcome.status, outcome.error)
    ELSE ErrorObj(IF outcome.error # <<>> THEN outcome.error
                  ELSE <<"Unknown", "error", "from", "G4F", "service">>,
                  Undefined, 0, <<>>)

isRateLimitError(error) ==
    LET message      == ToLowerCase(error.message)
        responseData == ToLowerCase(error.dataError)
    IN  \/ Includes(message, <<"rate", "limit">>)
        \/ Includes(message, <<"too", "many", "requests">>)
        \/ Includes(responseData, <<"rate", "limit">>)
        \/ Includes(responseData, <<"too", "many", "requests">>)
        \/ error.status = 429

isConnectionError(error) ==
    \/ error.code = "ECONNREFUSED"
    \/ error.code = "ENOTFOUND"
    \/ error.code = "ETIMEDOUT"
    \/ Includes(error.message, <<"Network", "Error">>)
    \/ Includes(error.message, <<"timeout">>)

\* getErrorMessage without the generic fallback text
getErrorMessage_NoFallback(error) ==
    IF error.dataError # <<>> THEN error.dataError ELSE error.message

\* getErrorMessage that prefers the message of the error to the body's error field
getErrorMessage_MessageFirst(error) ==
    IF error.message # <<>> THEN error.message
    ELSE IF error.dataError # <<>> THEN error.dataError
    ELSE <<"Unknown", "error", "occurred">>

getErrorMessage(error) ==
    IF error.dataError # <<>> THEN error.dataError
    ELSE IF error.message # <<>> THEN error.message
    ELSE <<"Unknown", "error", "occurred">>

\* a catch block that retries whatever the error is
ShouldRetry_AnyError(error, n) == n < maxRetries

\* the catch block decides to delay and `continue`
ShouldRetry(error, n) ==
    \/ isRateLimitError(error) /\ n < maxRetries
    \/ isConnectionError(error) /\ n < maxRetries

\* the value returned after the loop; getErrorMessage(null) throws
FailureResult(error, p, t) ==
    IF error = NoError
    THEN [settled |-> "rejected", success |-> FALSE, error |-> <<"TypeError">>,
          provider |-> p, timestamp |-> t]
    ELSE [settled |-> "resolved", success |-> FALSE, error |-> getErrorMessage(error),
          provider |-> p, timestamp |-> t]

\* response.data of a success body; provider and timestamp are the remote's
SuccessResult(outcome) ==
    [settled |-> "resolved", success |-> TRUE, error |-> outcome.error,
     provider |-> "remote", timestamp |-> "remote"]

NoResult == [settled |-> "pending"]

\* this.retryDelay * attempt, the argument of this.delay in the catch block
\* with a delay that does not grow
BackoffDelay_Constant(n) == retryDelay

BackoffDelay(n) == retryDelay * n

\* client.post('/chat', payload) is called for attempt n
Issued(pending, n) == pending \cup {n}

\* an await that resumes the loop while the post of attempt n is still pending
Settled_StillPending(pending, n) == pending

\* `await` resumes: the post of attempt n has settled
Settled(pending, n) == pending \ {n}

\* the second call: where it stands, its own loop variable, and the posts
\* and delays it has made so far
Peer(pc, n, posted, delayed) == [pc |-> pc, attempt |-> n, posts |-> posted, delays |-> delayed]

NoPeer == Peer("idle", 0, 0, 0)

\* an attempt counter that is a field of the service, advanced by every call
NextAttempt_Shared(own, other) == (IF own > other THEN own ELSE other) + 1

\* attempt++ on the `let attempt` of the call's own loop; other is the
\* counter of the call running beside it
NextAttempt(own, other) == own + 1

InitSend ==
    /\ sendPc = "idle"
    /\ attempt = 0
    /\ lastError = NoError
    /\ provider = Undefined
    /\ posts = <<>>
    /\ delays = <<>>
    /\ inFlight = {}
    /\ sendResult = NoResult
    /\ peer = NoPeer

\* sendToProvider is called: the loop is entered and the first post issued
SendToProvider ==
    \E p \in ProviderIds \cup {Undefined} :
        /\ sendPc = "idle"
        /\ provider' = p
        /\ attempt' = 1
        /\ lastError' = NoError
        /\ posts' = <<>>
        /\ delays' = <<>>
        /\ IF 1 <= maxRetries
           THEN sendPc' = "posting" /\ inFlight' = Issued({}, 1) /\ sendResult' = NoResult
           ELSE sendPc' = "done" /\ inFlight' = {} /\ sendResult' = FailureResult(NoError, p, now)
        /\ UNCHANGED peer
        /\ UNCHANGED <<pmVars, regVars, sweepVars, flightVars, stratVars>>

\* the awaited post settles with a success body: sendToProvider returns it
PostSucceeds ==
    \E outcome \in PostOutcomes :
        /\ sendPc = "posting"
        /\ outcome.kind = "response" /\ outcome.success
        /\ posts' = Append(posts, outcome)
        /\ inFlight' = Settled(inFlight, attempt)
        /\ sendResult' = SuccessResult(outcome)
        /\ sendPc' = "done"
        /\ UNCHANGED <<attempt, lastError, provider, delays, peer>>
        /\ UNCHANGED <<pmVars, regVars, sweepVars, flightVars, stratVars>>

\* the awaited post settles otherwise: the catch block runs
PostFails ==
    \E outcome \in PostOutcomes :
        /\ sendPc = "posting"
        /\ ~(outcome.kind = "response" /\ outcome.success)
        /\ posts' = Append(posts, outcome)
        /\ inFlight' = Settled(inFlight, attempt)
        /\ lastError' = Caught(outcome)
        /\ IF ShouldRetry(Caught(outcome), attempt)
           THEN /\ delays' = Append(delays, BackoffDelay(attempt))
                /\ sendPc' = "delaying"
                /\ sendResult' = sendResult
           ELSE /\ delays' = delays
                /\ sendPc' = "done"
                /\ sendResult' = FailureResult(Caught(outcome), provider, now)
        /\ UNCHANGED <<attempt, provider, peer>>
        /\ UNCHANGED <<pmVars, regVars, sweepVars, flightVars, stratVars>>

\* the delay elapses: `continue`, attempt++, loop test, next post
DelayElapses ==
    /\ sendPc = "delaying"
    /\ attempt' = attempt + 1
    /\ IF attempt + 1 <= maxRetries
       THEN /\ sendPc' = "posting"
            /\ inFlight' = Issued(inFlight, attempt + 1)
            /\ sendResult' = sendResult
       ELSE /\ sendPc' = "done"
            /\ inFlight' = inFlight
            /\ sendResult' = FailureResult(lastError, provider, now)
    /\ UNCHANGED <<lastError, provider, posts, delays, peer>>
    /\ UNCHANGED <<pmVars, regVars, sweepVars, flightVars, stratVars>>

\* the frame of the steps of the second call
PeerFrame ==
    /\ UNCHANGED <<sendPc, attempt, lastError, provider, posts, delays, inFlight, sendResult>>
    /\ UNCHANGED <<pmVars, regVars, sweepVars, flightVars, stratVars>>

\* sendToProvider is called a second time while the first call may be anywhere
PeerSendToProvider ==
    /\ peer.pc = "idle"
    /\ peer' = IF 1 <= maxRetries THEN Peer("posting", 1, 0, 0) ELSE Peer("done", 1, 0, 0)
    /\ PeerFrame

\* the post the second call awaits settles: return, delay and continue, or break
PeerPostSettles ==
    \E outcome \in PostOutcomes :
        /\ peer.pc = "posting"
        /\ peer' = IF outcome.kind = "response" /\ outcome.success
                   THEN Peer("done", peer.attempt, peer.posts + 1, peer.delays)
                   ELSE IF ShouldRetry(Caught(outcome), peer.attempt)
                   THEN Peer("delaying", peer.attempt, peer.posts + 1, peer.delays + 1)
                   ELSE Peer("done", peer.attempt, peer.posts + 1, peer.delays)
        /\ PeerFrame

\* the delay of the second call elapses: `continue`, attempt++, loop test
PeerDelayElapses ==
    /\ peer.pc = "delaying"
    /\ peer' = LET n == NextAttempt(peer.attempt, attempt)
               IN  Peer(IF n <= maxRetries THEN "posting" ELSE "done", n, peer.posts, peer.delays)
    /\ PeerFrame

----------------------------------------------------------------------------
(* G4FService: roster cache and probe                                       *)

Callers == {"a", "b"}

\* the status vocabulary of the remote, one unrecognised value included
RemoteStatuses == {"available", "rate_limited", "unavailable", "unknown", "degraded"}

\* mapProviderStatus that passes the remote value through
mapProviderStatus_PassThrough(status) == status

mapProviderStatus(status) ==
    CASE status = "available"    -> "available"
      [] status = "rate_limited" -> "rate_limited"
      [] status = "unavailable"  -> "unavailable"
      [] status = "unknown"      -> "unavailable"
      [] OTHER                   -> "unavailable"

\* response.data.providers.map(...) of the success branch
MapProviders(providers) ==
    [ i \in 1..Len(providers) |->
        Provider(providers[i].id, mapProviderStatus(providers[i].status)) ]

\* bodies of GET /providers with success = true
RemoteRosters ==
    {<<>>}
    \cup { <<Provider("p1", s)>> : s \in RemoteStatuses }
    \cup { <<Provider("bing", "unknown"), Provider("p1", "available")>> }

\* a settled client.get('/providers')
ProvidersOutcomes ==
    { [kind |-> "response", success |-> TRUE, providers |-> r] : r \in RemoteRosters }
    \cup { [kind |-> "response", success |-> FALSE, providers |-> <<>>],
           [kind |-> "rejection", success |-> FALSE, providers |-> <<>>] }

\* the cache check at the head of getAvailableProviders
CacheHit(cache, expiry, t) == Len(cache) > 0 /\ t < expiry

\* a success branch that stores the roster and leaves the expiry as it was
FetchSuccess_StaleExpiry(cache, expiry, providers, t) ==
    [providersCache |-> MapProviders(providers), cacheExpiry |-> expiry]

\* the success branch: the cache and the expiry it leaves behind
FetchSuccess(cache, expiry, providers, t) ==
    [providersCache |-> MapProviders(providers), cacheExpiry |-> t + cacheTTL]

\* a catch block that gives up the stale roster
FetchFailure_DropsStale(cache) == <<>>

\* the catch block: what getAvailableProviders returns after a failed fetch
FetchFailure(cache) == IF Len(cache) > 0 THEN cache ELSE <<>>

\* a settled client.post(`/providers/${providerName}/test`)
TestResponse(success, status, error) ==
    [kind |-> "response", success |-> success, result |-> status, error |-> error]

TestOutcomes ==
    { TestResponse(TRUE, s, <<>>) : s \in RemoteStatuses }
    \cup { TestResponse(FALSE, Undefined, <<"Provider", "test", "failed">>),
           TestResponse(FALSE, Undefined, <<>>),
           Rejection(<<"Network", "Error">>, Undefined, 0, <<>>),
           Rejection(StatusMessage("500"), "ERR_BAD_RESPONSE", 500, <<"Internal", "error">>),
           Rejection(<<>>, Undefined, 0, <<>>) }

TestResult(settled, providerName, status, error) ==
    [settled |-> settled, provider |-> providerName, status |-> status, error |-> error]

\* testProvider that lets a rejected post escape
testProvider_Rethrows(providerName, outcome) ==
    IF outcome.kind = "response"
    THEN IF outcome.success
         THEN TestResult("resolved", providerName, mapProviderStatus(outcome.result), <<>>)
         ELSE TestResult("resolved", providerName, "unavailable", outcome.error)
    ELSE TestResult("rejected", providerName, Undefined, outcome.message)

\* testProvider once its post has settled; lastChecked is left out
testProvider(providerName, outcome) ==
    IF outcome.kind = "response"
    THEN IF outcome.success
         THEN TestResult("resolved", providerName, mapProviderStatus(outcome.result), <<>>)
         ELSE TestResult("resolved", providerName, "unavailable", outcome.error)
    ELSE TestResult("resolved", providerName, "unavailable",
                    getErrorMessage(ErrorObj(outcome.message, outcome.code,
                                             outcome.status, outcome.error)))

\* a call of the registry client by one caller:
\*   op        the method,             pc      idle / fetching / probing / returned
\*   live      network calls it made,  arg     providerName of testProvider
\*   answer    the settled network call (NoAnswer: none)
\*   providers the roster getAvailableProviders returned
\*   result    what testProvider returned
\*   overtaken the cache was replaced by another call while this one was fetching
RegCall(op, pc, live, arg, answer, providers, result, overtaken) ==
    [op |-> op, pc |-> pc, live |-> live, arg |-> arg, answer |-> answer,
     providers |-> providers, result |-> result, overtaken |-> overtaken]

NoAnswer == [kind |-> "none"]

NoCall == RegCall("none", "idle", 0, Null, NoAnswer, <<>>, NoResult, FALSE)

InitRegistry ==
    /\ providersCache = <<>>
    /\ cacheExpiry = 0
    /\ calls = [c \in Callers |-> NoCall]

\* getAvailableProviders is called: the cache answers, or the get is issued
G4FGetAvailableProviders ==
    \E c \in Callers :
        /\ calls[c].pc \in {"idle", "returned"}
        /\ IF CacheHit(providersCache, cacheExpiry, now)
           THEN calls' = [calls EXCEPT ![c] =
                   RegCall("getAvailableProviders", "returned", 0, Null, NoAnswer,
                           providersCache, NoResult, FALSE)]
           ELSE calls' = [calls EXCEPT ![c] =
                   RegCall("getAvailableProviders", "fetching", 1, Null, NoAnswer,
                           <<>>, NoResult, FALSE)]
        /\ UNCHANGED <<providersCache, cacheExpiry>>
        /\ UNCHANGED <<pmVars, sendVars, sweepVars, flightVars, stratVars>>

\* the awaited get settles with success = true
GetProvidersSucceeds ==
    \E c \in Callers, outcome \in ProvidersOutcomes :
        /\ calls[c].pc = "fetching"
        /\ outcome.kind = "response" /\ outcome.success
        /\ LET w == FetchSuccess(providersCache, cacheExpiry, outcome.providers, now)
           IN  /\ providersCache' = w.providersCache
               /\ cacheExpiry' = w.cacheExpiry
               /\ calls' = [ d \in Callers |->
                     IF d = c
                     THEN RegCall("getAvailableProviders", "returned", calls[c].live, Null,
                                  outcome, w.providersCache, NoResult, calls[c].overtaken)
                     ELSE IF calls[d].pc = "fetching"
                          THEN [calls[d] EXCEPT !.overtaken = TRUE]
                          ELSE calls[d] ]
        /\ UNCHANGED <<pmVars, sendVars, sweepVars, flightVars, stratVars>>

\* the awaited get rejects, or settles with success = false
GetProvidersFails ==
    \E c \in Callers, outcome \in ProvidersOutcomes :
        /\ calls[c].pc = "fetching"
        /\ ~(outcome.kind = "response" /\ outcome.success)
        /\ calls' = [calls EXCEPT ![c] =
              RegCall("getAvailableProviders", "returned", calls[c].live, Null,
                      outcome, FetchFailure(providersCache), NoResult, calls[c].overtaken)]
        /\ UNCHANGED <<providersCache, cacheExpiry>>
        /\ UNCHANGED <<pmVars, sendVars, sweepVars, flightVars, stratVars>>

ClearCache ==
    /\ providersCache' = <<>>
    /\ cacheExpiry' = 0
    /\ UNCHANGED calls
    /\ UNCHANGED <<pmVars, sendVars, sweepVars, flightVars, stratVars>>

\* testProvider is called: the post is issued, whatever the cache holds
TestProvider ==
    \E c \in Callers, providerName \in ProviderIds :
        /\ calls[c].pc \in {"idle", "returned"}
        /\ calls' = [calls EXCEPT ![c] =
              RegCall("testProvider", "probing", 1, providerName, NoAnswer, <<>>, NoResult, FALSE)]
        /\ UNCHANGED <<providersCache, cacheExpiry>>
        /\ UNCHANGED <<pmVars, sendVars, sweepVars, flightVars, stratVars>>

\* the awaited post of testProvider settles
TestProviderSettles ==
    \E c \in Callers, outcome \in TestOutcomes :
        /\ calls[c].pc = "probing"
        /\ calls' = [calls EXCEPT ![c] =
              RegCall("testProvider", "returned", calls[c].live, calls[c].arg, outcome,
                      <<>>, testProvider(calls[c].arg, outcome), FALSE)]
        /\ UNCHANGED <<providersCache, cacheExpiry>>
        /\ UNCHANGED <<pmVars, sendVars, sweepVars, flightVars, stratVars>>

\* Date.now() moves on, to just before, to, or just past the expiry
TimePasses ==
    \E t \in {cacheExpiry - 1, cacheExpiry, cacheExpiry + 1} :
        /\ t > now
        /\ t <= MaxLifetimes * cacheTTL
        /\ now' = t
        /\ UNCHANGED <<providerHealth, selectionStrategy, healthCheckTimer, intervals, lastCall>>
        /\ UNCHANGED <<sendVars, regVars, sweepVars, flightVars, stratVars>>

NextRegistry ==
    \/ G4FGetAvailableProviders
    \/ GetProvidersSucceeds
    \/ GetProvidersFails
    \/ ClearCache
    \/ TestProvider
    \/ TestProviderSettles
    \/ TimePasses

----------------------------------------------------------------------------
(* ProviderManager: the periodic health sweep and getStatistics             *)
(*                                                                          *)
(* One performHealthCheck is followed at a time; its probes are in flight   *)
(* together and settle in any order, between any other operations.          *)

\* a performHealthCheck:
\*   pc      idle / fetching (roster awaited) / probing (allSettled awaited) / done
\*   by      timer: started by the setInterval callback, call: called directly
\*   roster  the providers the registry client answered with, failed: it rejected
\*   issued  the providerIds testProviderHealth was called with, in order
\*   pending the providerIds whose probe has not settled
\*   timerAtIssue  healthCheckTimer was set when the probes were issued
\*   threw   performHealthCheck rejected
Sweep(pc, by, roster, failed, issued, pending, timerAtIssue, threw) ==
    [pc |-> pc, by |-> by, roster |-> roster, failed |-> failed, issued |-> issued,
     pending |-> pending, timerAtIssue |-> timerAtIssue, threw |-> threw]

NoSweep == Sweep("idle", Null, <<>>, FALSE, <<>>, {}, FALSE, FALSE)

\* a sweep that probes only the providers the registry lists as available
SweepTargets_AvailableOnly(providers) ==
    [ i \in 1..Len(Available(providers)) |-> Available(providers)[i].id ]

\* providers.map(provider => this.testProviderHealth(provider.id))
SweepTargets(providers) == [ i \in 1..Len(providers) |-> providers[i].id ]

\* a probe whose outcome is dropped once the timer has been cancelled
SweepProbed_DroppedAfterCancel(h, providerId, answer, t, timer) ==
    IF timer THEN Probed(h, providerId, answer, t) ELSE h

\* testProviderHealth of a sweep resumes after its await: the outcome is
\* recorded, whatever has become of the timer
SweepProbed(h, providerId, answer, t, timer) == Probed(h, providerId, answer, t)

InitSweep == sweep = NoSweep

SweepCall(op, id, error, roster, failed) ==
    Call(op, id, error, NoRecord, roster, failed, NoProvider, <<>>, FALSE)

SweepProbeOp(answer) ==
    IF answer.status = "available" THEN "sweepProbeSuccess" ELSE "sweepProbeFailure"

\* the setInterval callback runs: performHealthCheck starts and awaits the roster
TimerFires ==
    /\ intervals > 0
    /\ sweep.pc \in {"idle", "done"}
    /\ sweep' = Sweep("fetching", "timer", <<>>, FALSE, <<>>, {}, FALSE, FALSE)
    /\ lastCall' = SweepCall("timerFires", Null, Undefined, <<>>, FALSE)
    /\ UNCHANGED <<providerHealth, selectionStrategy, healthCheckTimer, intervals, now>>
    /\ UNCHANGED <<sendVars, regVars, flightVars, stratVars>>

\* performHealthCheck is called directly
PerformHealthCheck ==
    /\ sweep.pc \in {"idle", "done"}
    /\ sweep' = Sweep("fetching", "call", <<>>, FALSE, <<>>, {}, FALSE, FALSE)
    /\ lastCall' = SweepCall("performHealthCheck", Null, Undefined, <<>>, FALSE)
    /\ UNCHANGED <<providerHealth, selectionStrategy, healthCheckTimer, intervals, now>>
    /\ UNCHANGED <<sendVars, regVars, flightVars, stratVars>>

\* g4fService.getAvailableProviders() settles: on a roster every
\* testProviderHealth is started and runs up to its await; a rejection is
\* caught and logged
SweepRosterArrives ==
    \E answer \in RosterAnswers :
        /\ sweep.pc = "fetching"
        /\ LET targets == IF answer.ok THEN SweepTargets(answer.providers) ELSE <<>>
           IN  sweep' = Sweep(IF targets = <<>> THEN "done" ELSE "probing", sweep.by,
                              answer.providers, ~answer.ok, targets, Range(targets),
                              healthCheckTimer, FALSE)
        /\ lastCall' = SweepCall("sweepRoster", Null, Undefined, answer.providers, ~answer.ok)
        /\ UNCHANGED <<providerHealth, selectionStrategy, healthCheckTimer, intervals, now>>
        /\ UNCHANGED <<sendVars, regVars, flightVars, stratVars>>

\* the probe of one provider of the sweep settles; with the last one
\* Promise.allSettled resolves and performHealthCheck returns
SweepProbeSettles ==
    \E providerId \in sweep.pending, answer \in ProbeAnswers :
        /\ sweep.pc = "probing"
        /\ answer.status = "available" \/ Failures(providerHealth, providerId) < MaxFailures
        /\ providerHealth' = SweepProbed(providerHealth, providerId, answer, now, healthCheckTimer)
        /\ sweep' = [sweep EXCEPT !.pending = @ \ {providerId},
                                  !.pc = IF sweep.pending = {providerId} THEN "done" ELSE @]
        /\ lastCall' = SweepCall(SweepProbeOp(answer), providerId, answer.error, <<>>,
                                 answer.status = ProbeThrows)
        /\ UNCHANGED <<selectionStrategy, healthCheckTimer, intervals, now>>
        /\ UNCHANGED <<sendVars, regVars, flightVars, stratVars>>

NextSweep ==
    \/ TimerFires
    \/ PerformHealthCheck
    \/ SweepRosterArrives
    \/ SweepProbeSettles
    \/ StartPeriodicHealthCheck
    \/ StopPeriodicHealthCheck
    \/ Destroy

----------------------------------------------------------------------------
(* ProviderManager: health updates in flight together                       *)
(*                                                                          *)
(* Every probe is followed from the call of g4fService.testProvider to the  *)
(* resumption of testProviderHealth, whoever issued it: a sweep of the      *)
(* timer, whatever the earlier sweeps are doing, or a testProviderHealth    *)
(* call.  Passive reports come in between.                                  *)

\* a probe in flight: tick is the number of the timer tick whose sweep issued
\* it (0: a testProviderHealth call)
Flight(providerId, tick) == [providerId |-> providerId, tick |-> tick]

\* the probes a sweep issues for its roster, as a bag
\* a sweep that sends every probe twice
RECURSIVE FlightsOf_ProbesTwice(_, _)
FlightsOf_ProbesTwice(targets, tick) ==
    IF targets = <<>> THEN EmptyBag
    ELSE SetToBag({Flight(Head(targets), tick)}) (+) SetToBag({Flight(Head(targets), tick)})
         (+) FlightsOf_ProbesTwice(Tail(targets), tick)

RECURSIVE FlightsOf(_, _)
FlightsOf(targets, tick) ==
    IF targets = <<>> THEN EmptyBag
    ELSE SetToBag({Flight(Head(targets), tick)}) (+) FlightsOf(Tail(targets), tick)

\* the probes of providerId in flight
RECURSIVE InFlight(_, _)
InFlight(probes, providerId) ==
    IF BagToSet(probes) = {} THEN 0
    ELSE LET probe == CHOOSE x \in BagToSet(probes) : TRUE
             rest  == [ y \in BagToSet(probes) \ {probe} |-> probes[y] ]
         IN  (IF probe.providerId = providerId THEN probes[probe] ELSE 0)
             + InFlight(rest, providerId)

\* a failure that is counted only once all the probes of the provider are back
LateProbed_CountsLastOnly(h, providerId, answer, t, others) ==
    IF answer.status # "available" /\ others > 0 /\ Has(h, providerId)
    THEN [Probed(h, providerId, answer, t) EXCEPT
            ![providerId].consecutiveFailures = h[providerId].consecutiveFailures]
    ELSE Probed(h, providerId, answer, t)

\* testProviderHealth resumes after its await, others of the probes of the
\* provider still in flight: updateProviderHealth reads the record as it is
\* now and writes it back in the same turn
LateProbed(h, providerId, answer, t, others) == Probed(h, providerId, answer, t)

FlightOp(answer) ==
    IF answer.status = "available" THEN "probeReturnedSuccess" ELSE "probeReturnedFailure"

InitFlights == flights = [ticks |-> 0, fetching |-> {}, probes |-> EmptyBag]

\* the setInterval callback runs once more: performHealthCheck starts and
\* awaits the roster, whatever became of the sweeps of the earlier ticks
TimerTick ==
    /\ intervals > 0
    /\ flights.ticks < MaxTicks
    /\ flights' = [flights EXCEPT !.ticks = @ + 1, !.fetching = @ \cup {flights.ticks + 1}]
    /\ lastCall' = SweepCall("timerFires", Null, Undefined, <<>>, FALSE)
    /\ UNCHANGED <<providerHealth, selectionStrategy, healthCheckTimer, intervals, now>>
    /\ UNCHANGED <<sendVars, regVars, sweepVars, stratVars>>

\* the answers the sweep of a tick gets for its roster; it probes every
\* provider listed, whatever its status, so one status stands for all
TickRosterAnswers == { answer \in RosterAnswers :
                         \A i \in 1..Len(answer.providers) :
                            answer.providers[i].status = "available" }

\* the roster of the sweep of one tick arrives and its probes are issued
TickRosterArrives ==
    \E tick \in flights.fetching, answer \in TickRosterAnswers :
        LET targets == IF answer.ok THEN SweepTargets(answer.providers) ELSE <<>>
        IN  /\ BagCardinality(flights.probes) + Len(targets) <= MaxInFlight
            /\ flights' = [flights EXCEPT
                              !.fetching = @ \ {tick},
                              !.probes = @ (+) FlightsOf(targets, tick)]
            /\ lastCall' = SweepCall("sweepRoster", Null, Undefined, <<>>, ~answer.ok)
            /\ UNCHANGED <<providerHealth, selectionStrategy, healthCheckTimer, intervals, now>>
            /\ UNCHANGED <<sendVars, regVars, sweepVars, stratVars>>

\* testProviderHealth(providerId) is called and awaits its probe
TestProviderHealthCalled ==
    \E providerId \in ProviderIds :
        /\ BagCardinality(flights.probes) < MaxInFlight
        /\ flights' = [flights EXCEPT
                          !.probes = @ (+) SetToBag({Flight(providerId, 0)})]
        /\ lastCall' = SweepCall("testProviderHealth", providerId, Undefined, <<>>, FALSE)
        /\ UNCHANGED <<providerHealth, selectionStrategy, healthCheckTimer, intervals, now>>
        /\ UNCHANGED <<sendVars, regVars, sweepVars, stratVars>>

\* one of the probes in flight settles and its testProviderHealth resumes
ProbeReturns ==
    \E probe \in BagToSet(flights.probes), answer \in ProbeAnswers :
        /\ answer.status = "available" \/ Failures(providerHealth, probe.providerId) < MaxFailures
        /\ providerHealth' = LateProbed(providerHealth, probe.providerId, answer, now,
                                       InFlight(flights.probes, probe.providerId) - 1)
        /\ flights' = [flights EXCEPT !.probes = @ (-) SetToBag({probe})]
        /\ lastCall' = SweepCall(FlightOp(answer), probe.providerId, answer.error, <<>>,
                                 answer.status = ProbeThrows)
        /\ UNCHANGED <<selectionStrategy, healthCheckTimer, intervals, now>>
        /\ UNCHANGED <<sendVars, regVars, sweepVars, stratVars>>

NextOverlap ==
    \/ TimerTick
    \/ TickRosterArrives
    \/ TestProviderHealthCalled
    \/ ProbeReturns
    \/ MarkProviderFailure
    \/ MarkProviderSuccess

\* getProviderHealthStatus(): the records held, as a set
getProviderHealthStatus(h) == { h[id] : id \in DOMAIN h }

\* a quotient of two integers, as the number a division yields
Fraction(num, den) == [num |-> num, den |-> den]

RECURSIVE TotalFailures(_, _)
\* healthStatuses.reduce((sum, h) => sum + h.consecutiveFailures, 0)
TotalFailures(h, ids) ==
    IF ids = {} THEN 0
    ELSE LET id == CHOOSE x \in ids : TRUE
         IN  h[id].consecutiveFailures + TotalFailures(h, ids \ {id})

\* Math.max(...healthStatuses.map(h => h.lastChecked.getTime()))
LatestChecked(h) ==
    CHOOSE t \in { h[id].lastChecked : id \in DOMAIN h } :
        \A id \in DOMAIN h : h[id].lastChecked <= t

\* getStatistics that reports the earliest lastChecked
getStatistics_EarliestCheck(h) ==
    LET healthyCount == Cardinality({ id \in DOMAIN h : h[id].isHealthy })
        length == Cardinality(DOMAIN h)
    IN  [ totalProviders             |-> length,
          healthyProviders           |-> healthyCount,
          unhealthyProviders         |-> length - healthyCount,
          averageConsecutiveFailures |-> IF length > 0
                                         THEN Fraction(TotalFailures(h, DOMAIN h), length)
                                         ELSE Fraction(0, 1),
          lastHealthCheck            |-> IF length > 0
                                         THEN CHOOSE t \in { h[id].lastChecked : id \in DOMAIN h } :
                                                \A id \in DOMAIN h : t <= h[id].lastChecked
                                         ELSE Null ]

getStatistics(h) ==
    LET healthyCount == Cardinality({ id \in DOMAIN h : h[id].isHealthy })
        length == Cardinality(DOMAIN h)
    IN  [ totalProviders             |-> length,
          healthyProviders           |-> healthyCount,
          unhealthyProviders         |-> length - healthyCount,
          averageConsecutiveFailures |-> IF length > 0
                                         THEN Fraction(TotalFailures(h, DOMAIN h), length)
                                         ELSE Fraction(0, 1),
          lastHealthCheck            |-> IF length > 0 THEN LatestChecked(h) ELSE Null ]

\* getStatistics(); lastCall.result is the object it returned
GetStatistics ==
    /\ lastCall' = Call("getStatistics", Null, Undefined, NoRecord, <<>>, FALSE,
                        getStatistics(providerHealth), <<>>, FALSE)
    /\ UNCHANGED <<providerHealth, selectionStrategy, healthCheckTimer, intervals, now>>
    /\ UNCHANGED <<sendVars, regVars, sweepVars, flightVars, stratVars>>

\* time passes
Tick ==
    /\ now < MaxTime
    /\ now' = now + 1
    /\ UNCHANGED <<providerHealth, selectionStrategy, healthCheckTimer, intervals, lastCall>>
    /\ UNCHANGED <<sendVars, regVars, sweepVars, flightVars, stratVars>>

\* the health tracker over time, fed by the reports of the callers
NextTracker ==
    \/ MarkProviderFailure
    \/ MarkProviderSuccess
    \/ Destroy
    \/ GetStatistics
    \/ Tick

----------------------------------------------------------------------------
(* A selection strategy called on its own, with any list of providers      *)

StrategyIds == {"p1", "bing", "you"}

\* provider lists of up to three entries with pairwise distinct ids
StrategyInputs ==
    LET one == { <<Provider(i, st)>> : i \in StrategyIds, st \in Statuses }
        two == { x \o y : x \in one, y \in one }
        three == { x \o y : x \in two, y \in one }
    IN  {<<>>} \cup one
        \cup { x \in two : x[1].id # x[2].id }
        \cup { x \in three : Cardinality({x[1].id, x[2].id, x[3].id}) = 3 }

\* priorityOrder arguments of new PriorityStrategy(...)
PriorityOrders ==
    {priorityOrder, <<>>}
    \cup { <<i>> : i \in StrategyIds }
    \cup { <<i, j>> : i \in StrategyIds, j \in StrategyIds \ {"bing"} }

StrategyInstance(kind, order) == [kind |-> kind, currentIndex |-> 0, priorityOrder |-> order]

\* selectProvider(providers) on the instance st
InstanceSelect(st, providers) ==
    CASE st.kind = "RoundRobinStrategy" -> RoundRobinStrategy(st.currentIndex, providers)
      [] st.kind = "RandomStrategy"     -> RandomStrategy(st.currentIndex, providers)
      [] OTHER -> PriorityStrategyOf(st.priorityOrder, st.currentIndex, providers)

Selected(op, input, result) == [op |-> op, input |-> input, result |-> result]

NoRun == [available |-> <<>>, results |-> <<>>]

\* the last n elements of seq
LastN(seq, n) == IF Len(seq) <= n THEN seq ELSE SubSeq(seq, Len(seq) - n + 1, Len(seq))

\* the results of the latest consecutive calls made with one and the same
\* list of available providers, at most as many as the list is long
Extend(r, available, result) ==
    IF available = <<>> THEN NoRun
    ELSE IF available = r.available
         THEN [available |-> available,
               results |-> LastN(Append(r.results, result.id), Len(available))]
         ELSE [available |-> available, results |-> <<result.id>>]

InitStrategy ==
    /\ instance = StrategyInstance("PriorityStrategy", priorityOrder)
    /\ select = Selected("new", <<>>, NoProvider)
    /\ run = NoRun

\* new RoundRobinStrategy(), new RandomStrategy(), new PriorityStrategy(order)
NewStrategy ==
    \E kind \in StrategyKinds, order \in PriorityOrders :
        /\ kind # "PriorityStrategy" => order = <<>>
        /\ instance' = StrategyInstance(kind, order)
        /\ select' = Selected("new", <<>>, NoProvider)
        /\ run' = NoRun
        /\ UNCHANGED <<pmVars, sendVars, regVars, sweepVars, flightVars>>

\* strategy.selectProvider(providers)
StrategySelectProvider ==
    \E providers \in StrategyInputs :
        \E o \in InstanceSelect(instance, providers) :
            /\ instance' = [instance EXCEPT !.currentIndex = o.currentIndex]
            /\ select' = Selected("selectProvider", providers, o.result)
            /\ run' = Extend(run, Available(providers), o.result)
            /\ UNCHANGED <<pmVars, sendVars, regVars, sweepVars, flightVars>>

NextStrategy == NewStrategy \/ StrategySelectProvider

Init == InitManager /\ InitSend /\ InitRegistry /\ InitStrategy /\ InitSweep /\ InitFlights

\* the state after new ProviderManager(g4fService, undefined, options)
InitPriority ==
    /\ InitManager /\ InitSend /\ InitRegistry /\ InitStrategy /\ InitSweep /\ InitFlights
    /\ selectionStrategy = [kind |-> "PriorityStrategy", currentIndex |-> 0]

\* the registry client with a manager as new ProviderManager(g4fService) leaves it
InitDefault ==
    /\ InitManager /\ InitSend /\ InitRegistry /\ InitStrategy /\ InitSweep /\ InitFlights
    /\ selectionStrategy = [kind |-> "PriorityStrategy", currentIndex |-> 0]
    /\ healthCheckTimer

NextSend == SendToProvider \/ PostSucceeds \/ PostFails \/ DelayElapses \/ Tick

\* two sendToProvider calls of one service side by side
NextSends ==
    \/ SendToProvider
    \/ PostSucceeds
    \/ PostFails
    \/ DelayElapses
    \/ PeerSendToProvider
    \/ PeerPostSettles
    \/ PeerDelayElapses

\* every post settles (axios rejects at the latest after its timeout) and
\* every setTimeout of delay() fires
SendsFairness ==
    /\ WF_vars(PostSucceeds \/ PostFails)
    /\ WF_vars(DelayElapses)
    /\ WF_vars(PeerPostSettles)
    /\ WF_vars(PeerDelayElapses)

SpecSends == Init /\ [][NextSends]_vars /\ SendsFairness

SpecManager == Init /\ [][NextManager]_vars

\* selections through the manager and calls on its strategy object
NextRotation ==
    \/ SelectProvider
    \/ CallStrategy
    \/ SetSelectionStrategy
    \/ MarkProviderFailure
    \/ MarkProviderSuccess

SpecRotation == Init /\ [][NextRotation]_vars

SpecSend == Init /\ [][NextSend]_vars

SpecRegistry == InitDefault /\ [][NextRegistry]_vars

SpecStrategy == InitDefault /\ [][NextStrategy]_vars

SpecSweep == InitPriority /\ [][NextSweep]_vars

SpecOverlap == InitDefault /\ [][NextOverlap]_vars

SpecTracker == InitDefault /\ [][NextTracker]_vars

----------------------------------------------------------------------------
(* Properties of the Provider Manager and its health tracker                *)

FailureOps == {"markProviderFailure", "probeFailure"}
SuccessOps == {"markProviderSuccess", "probeSuccess"}
RosterOps  == {"getAvailableProviders", "selectProvider", "getFallbackProviders"}

\* "usable" as the specification defines it: remotely available, and either
\* unobserved or healthy below the failure threshold
Usable(h, p) ==
    /\ p.status = "available"
    /\ \/ ~Has(h, p.id)
       \/ h[p.id].isHealthy /\ h[p.id].consecutiveFailures < maxConsecutiveFailures

\* C1: a provider whose consecutiveFailures has reached maxConsecutiveFailures
\* is never returned by selectProvider, whatever the strategy and the
\* preferredId, until a success resets its counter.
C1_FailedProviderNeverSelected ==
    [][ (lastCall'.op = "selectProvider" /\ lastCall'.result # NoProvider)
        => Failures(providerHealth, lastCall'.result.id) < maxConsecutiveFailures ]_vars

\* C2: fetching the roster through getAvailableProviders, selectProvider or
\* getFallbackProviders leaves every health record unchanged.
C2_RosterFetchKeepsHealth ==
    [][ lastCall'.op \in RosterOps => providerHealth' = providerHealth ]_vars

\* C3: every step leaves the consecutiveFailures of a record unchanged, adds
\* exactly 1 to it in a recordFailure of that provider (markProviderFailure or
\* a failed probe), or sets it to 0 in a recordSuccess of that provider.
C3_CounterMovesOnlyOnReports ==
    [][ \A id \in DOMAIN providerHealth' :
          LET before == Failures(providerHealth, id)
              after  == Failures(providerHealth', id)
          IN  \/ after = before /\ (Has(providerHealth, id) \/ after = 0)
              \/ after = before + 1 /\ lastCall'.op \in FailureOps /\ lastCall'.id = id
              \/ after = 0 /\ lastCall'.op \in SuccessOps /\ lastCall'.id = id ]_vars

\* C4: every provider returned by selectProvider or getFallbackProviders is a
\* usable member of the roster, and selectProvider() without a preferredId
\* returns none only when no roster member is usable.  Usability is taken
\* against the health map as it is when the method returns.
C4_ReturnedProvidersUsable ==
    /\ (lastCall.op = "selectProvider" /\ lastCall.result # NoProvider)
         => /\ lastCall.result \in Range(lastCall.roster)
            /\ Usable(providerHealth, lastCall.result)
    /\ lastCall.op = "getFallbackProviders"
         => \A p \in Range(lastCall.list) :
               p \in Range(lastCall.roster) /\ Usable(providerHealth, p)
    /\ (lastCall.op = "selectProvider" /\ lastCall.id = Null /\ lastCall.result = NoProvider)
         => \A p \in Range(lastCall.roster) : ~Usable(providerHealth, p)

\* a preferred provider was returned although the strategy would have chosen
\* the other, usable roster member
C4_Witness ==
    /\ lastCall.op = "selectProvider"
    /\ lastCall.id = "p1"
    /\ lastCall.result = Provider("p1", "available")
    /\ lastCall.roster = <<Provider("bing", "available"), Provider("p1", "available")>>

\* C5: one markProviderSuccess(id) leaves id locally healthy, and a
\* selectProvider() that follows it on the roster [id available] returns id.
C5_SuccessRestoresProvider ==
    /\ [](lastCall.op = "markProviderSuccess"
            => Usable(providerHealth, Provider(lastCall.id, "available")))
    /\ [][ ( /\ lastCall.op = "markProviderSuccess"
             /\ lastCall'.op = "selectProvider"
             /\ lastCall'.id = Null
             /\ lastCall'.roster = <<Provider(lastCall.id, "available")>> )
           => lastCall'.result = Provider(lastCall.id, "available") ]_vars

\* markProviderSuccess acted on a provider that had reached the threshold
C5_Witness ==
    /\ lastCall.op = "markProviderSuccess"
    /\ lastCall.pre # NoRecord
    /\ ~lastCall.pre.isHealthy
    /\ lastCall.pre.consecutiveFailures >= maxConsecutiveFailures
    /\ providerHealth[lastCall.id].consecutiveFailures = 0

\* C6: a provider without a health record counts as locally healthy, and a
\* remotely available provider that was never observed is selectable: it is
\* returned when it is preferred or the only roster member, and some provider
\* is returned when no preference is given.
C6_UnseenProviderSelectable ==
    /\ [](\A id \in ProviderIds : ~Has(providerHealth, id) => isProviderHealthy(providerHealth, id))
    /\ [][ lastCall'.op = "selectProvider"
           => \A p \in Range(lastCall'.roster) :
                 (p.status = "available" /\ ~Has(providerHealth, p.id))
                 => /\ lastCall'.id = p.id => lastCall'.result = p
                    /\ lastCall'.id = Null => lastCall'.result # NoProvider
                    /\ (lastCall'.id = Null /\ lastCall'.roster = <<p>>) => lastCall'.result = p ]_vars

\* selectProvider() returned p1 from the roster [p1 available] while bing,
\* never seen by this manager, has no record
C6_Witness ==
    /\ lastCall.op = "selectProvider"
    /\ lastCall.id = Null
    /\ lastCall.roster = <<Provider("p1", "available")>>
    /\ lastCall.result = Provider("p1", "available")
    /\ ~Has(providerHealth, "bing")

\* C7: a recordSuccess leaves the record healthy with no failures and no
\* error; a recordFailure leaves it unhealthy with one failure more than
\* before (0 if unseen) and the reported error.  Both create the record.
C7_HealthTransitions ==
    /\ lastCall.op \in SuccessOps
         => /\ Has(providerHealth, lastCall.id)
            /\ providerHealth[lastCall.id].isHealthy
            /\ providerHealth[lastCall.id].consecutiveFailures = 0
            /\ providerHealth[lastCall.id].error = Undefined
    /\ lastCall.op \in FailureOps
         => /\ Has(providerHealth, lastCall.id)
            /\ ~providerHealth[lastCall.id].isHealthy
            /\ providerHealth[lastCall.id].consecutiveFailures =
                 (IF lastCall.pre = NoRecord THEN 0 ELSE lastCall.pre.consecutiveFailures) + 1
            /\ providerHealth[lastCall.id].error = lastCall.error

\* a failure with an error was recorded on top of two earlier failures
C7_Witness ==
    /\ lastCall.op = "markProviderFailure"
    /\ lastCall.error = "Connection failed"
    /\ lastCall.pre # NoRecord
    /\ lastCall.pre.consecutiveFailures = 2
    /\ providerHealth[lastCall.id].consecutiveFailures = 3

\* the usable members of a roster, in roster order
UsableProviders(h, roster) == Filter(roster, { p \in Range(roster) : Usable(h, p) })

\* C19: selectProvider(preferredId) returns the preferred provider, whatever
\* the strategy and without moving it, iff the roster lists it as available
\* and it is locally usable; otherwise it returns what selectProvider()
\* returns: the choice of the strategy among the usable providers, or none.
C19_PreferredOrFallThrough ==
    [][ (lastCall'.op = "selectProvider" /\ lastCall'.id # Null)
        => LET roster    == lastCall'.roster
               preferred == Find(roster, lastCall'.id)
               usable    == UsableProviders(providerHealth', roster)
               outcome   == [result |-> lastCall'.result,
                             currentIndex |-> selectionStrategy'.currentIndex]
           IN  /\ ~lastCall'.threw
               /\ selectionStrategy'.kind = selectionStrategy.kind
               /\ IF preferred # NoProvider /\ Usable(providerHealth', preferred)
                  THEN lastCall'.result = preferred /\ selectionStrategy' = selectionStrategy
                  ELSE IF usable = <<>>
                       THEN outcome = [result |-> NoProvider,
                                       currentIndex |-> selectionStrategy.currentIndex]
                       ELSE outcome \in StrategySelect(selectionStrategy, usable) ]_vars

\* p1 was preferred but is rate limited at the registry: the strategy chose bing
C19_Witness ==
    /\ lastCall.op = "selectProvider"
    /\ lastCall.id = "p1"
    /\ lastCall.roster = <<Provider("p1", "rate_limited"), Provider("bing", "available")>>
    /\ lastCall.result = Provider("bing", "available")

\* C20: no manager method throws; when the roster call of the registry
\* client rejects, getAvailableProviders and getFallbackProviders return the
\* empty list and selectProvider returns none, and selectProvider returns
\* none whenever the roster has no usable member.
C20_RegistryFailureMasked ==
    /\ ~lastCall.threw
    /\ (lastCall.op \in RosterOps /\ lastCall.failed)
         => lastCall.list = <<>> /\ lastCall.result = NoProvider
    /\ (lastCall.op = "selectProvider" /\ UsableProviders(providerHealth, lastCall.roster) = <<>>)
         => lastCall.result = NoProvider

\* the registry client rejected during a selectProvider('bing') of a manager
\* that had seen bing healthy before
C20_Witness ==
    /\ lastCall.op = "selectProvider"
    /\ lastCall.id = "bing"
    /\ lastCall.failed
    /\ lastCall.result = NoProvider
    /\ Has(providerHealth, "bing")
    /\ providerHealth["bing"].isHealthy

----------------------------------------------------------------------------
(* Properties of sendToProvider                                             *)

Succeeded(outcome) == outcome.kind = "response" /\ outcome.success

\* the failure is one the catch block classifies as rate limit or connection error
Retryable(outcome) ==
    isRateLimitError(Caught(outcome)) \/ isConnectionError(Caught(outcome))

\* the outcome ends the retry sequence wherever it occurs
Decisive(outcome) == Succeeded(outcome) \/ ~Retryable(outcome)

LastPost == posts[Len(posts)]

\* C8: a send issues at most 3 posts; their number is the position of the
\* first post that succeeds or fails with a non-retryable error, capped at 3,
\* and the send succeeds iff its last post did.
C8_AttemptCount ==
    /\ Len(posts) <= 3
    /\ \A i \in 1..(Len(posts) - 1) : ~Decisive(posts[i])
    /\ sendPc \in {"posting", "delaying"} => Len(posts) < 3
    /\ sendPc = "delaying" => ~Decisive(LastPost)
    /\ sendPc = "done"
         => /\ Len(posts) >= 1
            /\ Decisive(LastPost) \/ Len(posts) = 3
            /\ sendResult.success <=> Succeeded(LastPost)

\* two rate-limit rejections, then a success on the third post
C8_Witness ==
    /\ sendPc = "done"
    /\ Len(posts) = 3
    /\ posts[1].status = 429
    /\ posts[2].status = 429
    /\ Succeeded(posts[3])
    /\ sendResult.success

\* rate limited as C9 describes it: HTTP 429, or 'rate limit' / 'too many
\* requests' in the error message or the response error field; connection
\* failure: a post that got no response (refused, not found, timeout, network error)
TransientFailure(outcome) ==
    \/ isRateLimitError(Caught(outcome))
    \/ outcome.kind = "rejection" /\ isConnectionError(Caught(outcome))

\* post i was followed by another attempt (issued or waiting for its delay)
Followed(i) == i < Len(posts) \/ (i = Len(posts) /\ sendPc \in {"posting", "delaying"})

\* C9: a failed attempt is followed by another attempt iff attempts remain
\* and the failure is a rate limit or a connection failure; every other
\* failure, a success = false body that is not rate-limit related included,
\* ends the send at once.
C9_RetryIffTransient ==
    \A i \in 1..Len(posts) :
        ~Succeeded(posts[i]) => (Followed(i) <=> (i < maxRetries /\ TransientFailure(posts[i])))

\* C10: sendToProvider always resolves: with the remote success body, or
\* with success = false, an error message, the requested provider and a
\* timestamp.  It never rejects.
C10_AlwaysResolves ==
    /\ sendPc \in {"idle", "posting", "delaying", "done"}
    /\ sendResult.settled # "rejected"
    /\ sendPc # "done" => sendResult.settled = "pending"
    /\ sendPc = "done"
         => /\ sendResult.settled = "resolved"
            /\ Len(posts) >= 1
            /\ Succeeded(LastPost) => sendResult = SuccessResult(LastPost)
            /\ ~Succeeded(LastPost)
                 => /\ ~sendResult.success
                    /\ sendResult.error # <<>>
                    /\ sendResult.provider = provider
                    /\ sendResult.timestamp \in 0..now

\* a rejection that carries no message at all ended the send for provider bing
C10_Witness ==
    /\ sendPc = "done"
    /\ provider = "bing"
    /\ LastPost = Rejection(<<>>, Undefined, 0, <<>>)
    /\ ~sendResult.success
    /\ sendResult.error = <<"Unknown", "error", "occurred">>

\* C11: the attempts of a send are strictly sequential: a post is issued for
\* attempt n+1 only when the outcomes of attempts 1..n are known, and at most
\* one post of the send is in flight at any time.
C11_AttemptsSequential ==
    /\ [](Cardinality(inFlight) <= 1)
    /\ [](inFlight # {} <=> sendPc = "posting")
    /\ [](\A n \in inFlight : n = attempt /\ Len(posts) = n - 1)
    /\ [][ \A n \in inFlight' \ inFlight : inFlight = {} /\ Len(posts') = n - 1 ]_vars

\* the third post is in flight, the outcomes of the first two being known
C11_Witness ==
    /\ inFlight = {3}
    /\ Len(posts) = 2
    /\ ~Succeeded(posts[1])
    /\ ~Succeeded(posts[2])

UnknownErrorTexts ==
    { <<"Unknown", "error", "occurred">>, <<"Unknown", "error", "from", "G4F", "service">> }

\* C13: the error of a failed send is that of its last attempt: the error
\* field of the response body if there is one, else the message of the
\* transport error, else a generic unknown-error text.
C13_ErrorOfLastAttempt ==
    (sendPc = "done" /\ ~Succeeded(LastPost))
      => IF LastPost.error # <<>> THEN sendResult.error = LastPost.error
         ELSE IF LastPost.kind = "rejection" /\ LastPost.message # <<>>
              THEN sendResult.error = LastPost.message
              ELSE sendResult.error \in UnknownErrorTexts

\* retries exhausted: the first attempt was rejected with 429, the last one
\* with a 500 whose body carries its own error text
C13_Witness ==
    /\ sendPc = "done"
    /\ Len(posts) = 3
    /\ posts[1] = Rejection(StatusMessage("429"), "ERR_BAD_REQUEST", 429, <<>>)
    /\ posts[3] = Rejection(StatusMessage("500"), "ERR_BAD_RESPONSE", 500, <<"Too", "Many", "Requests">>)
    /\ sendResult.error = <<"Too", "Many", "Requests">>

----------------------------------------------------------------------------
(* Properties of the registry client                                        *)

\* caller c calls getAvailableProviders in this step
ListCalled(c) ==
    /\ calls[c].pc \in {"idle", "returned"}
    /\ calls'[c].op = "getAvailableProviders"
    /\ calls'[c] # calls[c]

\* the get of caller c settles in this step
FetchSettled(c) ==
    /\ calls[c].op = "getAvailableProviders"
    /\ calls[c].pc = "fetching"
    /\ calls'[c].pc = "returned"

FetchOk(answer) == answer.kind = "response" /\ answer.success

\* the status the specification lets through for a remote status
SurfacedStatus(status) ==
    IF status \in {"available", "rate_limited"} THEN status ELSE "unavailable"

SurfacedRoster(providers) ==
    [ i \in 1..Len(providers) |-> Provider(providers[i].id, SurfacedStatus(providers[i].status)) ]

\* C14: once a fetch has succeeded, a getAvailableProviders call made before
\* the expiry makes no network call and returns the cached roster; a call
\* made at or after the expiry, or with nothing fetched yet, issues exactly
\* one get.
C14_FreshCacheServesCalls ==
    [][ \A c \in Callers :
          ListCalled(c)
          => IF cacheExpiry > 0 /\ now < cacheExpiry
             THEN /\ calls'[c].pc = "returned"
                  /\ calls'[c].live = 0
                  /\ calls'[c].providers = providersCache
             ELSE /\ calls'[c].pc = "fetching"
                  /\ calls'[c].live = 1 ]_vars

\* C15: a fetch that fails (rejection, or a body with success = false)
\* returns the cache as it is, stale or not, the empty list if the cache is
\* empty, and leaves the cache and its expiry unchanged; unless another call
\* replaced the cache in the meantime, the next call fetches again.
C15_FailedFetchServesStale ==
    [][ \A c \in Callers :
          (FetchSettled(c) /\ ~FetchOk(calls'[c].answer))
          => /\ providersCache' = providersCache
             /\ cacheExpiry' = cacheExpiry
             /\ calls'[c].providers = providersCache
             /\ calls'[c].live = 1
             /\ ~calls[c].overtaken
                  => (Len(providersCache') = 0 \/ now' >= cacheExpiry') ]_vars

\* a rejected get was answered with the roster cached one lifetime earlier
C15_Witness ==
    \E c \in Callers :
        /\ calls[c].op = "getAvailableProviders"
        /\ calls[c].pc = "returned"
        /\ calls[c].answer.kind = "rejection"
        /\ calls[c].providers = <<Provider("p1", "available")>>
        /\ providersCache = <<Provider("p1", "available")>>
        /\ cacheExpiry > 0
        /\ now >= cacheExpiry

\* C16: the cache and its expiry change together, in the step in which a
\* get settles with success = true (or in clearCache): the roster becomes
\* the one just fetched and the expiry the completion time plus 5 minutes,
\* so that no call, however the calls interleave, finds one without the other.
C16_CacheReplacedAtomically ==
    /\ [](cacheExpiry = 0 => providersCache = <<>>)
    /\ [][ \A c \in Callers :
             (FetchSettled(c) /\ FetchOk(calls'[c].answer))
             => /\ providersCache' = SurfacedRoster(calls'[c].answer.providers)
                /\ cacheExpiry' = now + 5 * 60 * 1000
                /\ calls'[c].providers = providersCache' ]_vars
    /\ [][ (providersCache' # providersCache \/ cacheExpiry' # cacheExpiry)
           => \/ providersCache' = <<>> /\ cacheExpiry' = 0
              \/ \E c \in Callers : FetchSettled(c) /\ FetchOk(calls'[c].answer) ]_vars

\* of two gets in flight together, that of caller a has replaced an expired
\* cache while that of caller b is still pending
C16_Witness ==
    /\ calls["a"].op = "getAvailableProviders"
    /\ calls["a"].pc = "returned"
    /\ FetchOk(calls["a"].answer)
    /\ calls["b"].pc = "fetching"
    /\ calls["b"].overtaken
    /\ now >= cacheTTL
    /\ cacheExpiry = now + cacheTTL
    /\ providersCache = calls["a"].providers

\* C17: every status in the cache, in a roster returned by
\* getAvailableProviders and in a testProvider result is available,
\* rate_limited or unavailable; available and rate_limited are kept, and
\* unavailable, unknown and any other remote value become unavailable.
C17_StatusesMapped ==
    /\ \A p \in Range(providersCache) : p.status \in {"available", "rate_limited", "unavailable"}
    /\ \A c \in Callers :
          /\ \A p \in Range(calls[c].providers) :
                p.status \in {"available", "rate_limited", "unavailable"}
          /\ (calls[c].op = "getAvailableProviders" /\ FetchOk(calls[c].answer))
               => calls[c].providers = SurfacedRoster(calls[c].answer.providers)
          /\ (calls[c].op = "testProvider" /\ calls[c].pc = "returned")
               => /\ calls[c].result.status \in {"available", "rate_limited", "unavailable"}
                  /\ FetchOk(calls[c].answer)
                       => calls[c].result.status = SurfacedStatus(calls[c].answer.result)

\* a roster listing bing as unknown was returned with bing unavailable, and
\* a probe answered 'degraded' was returned as unavailable
C17_Witness ==
    /\ calls["a"].op = "getAvailableProviders"
    /\ FetchOk(calls["a"].answer)
    /\ calls["a"].answer.providers = <<Provider("bing", "unknown"), Provider("p1", "available")>>
    /\ calls["a"].providers = <<Provider("bing", "unavailable"), Provider("p1", "available")>>
    /\ calls["b"].op = "testProvider"
    /\ calls["b"].pc = "returned"
    /\ FetchOk(calls["b"].answer)
    /\ calls["b"].answer.result = "degraded"
    /\ calls["b"].result.status = "unavailable"

\* C18: testProvider makes exactly one live call whatever the roster cache
\* holds, and always resolves: a body with success = false gives unavailable
\* with the error of the body, a rejected post gives unavailable with the
\* message of the error.
C18_ProbeAlwaysLive ==
    /\ [](\A c \in Callers :
            calls[c].op = "testProvider"
            => /\ calls[c].live = 1
               /\ calls[c].pc \in {"probing", "returned"}
               /\ calls[c].pc = "returned"
                    => /\ calls[c].result.settled = "resolved"
                       /\ calls[c].result.provider = calls[c].arg
                       /\ (calls[c].answer.kind = "response" /\ ~calls[c].answer.success)
                            => /\ calls[c].result.status = "unavailable"
                               /\ calls[c].result.error = calls[c].answer.error
                       /\ calls[c].answer.kind = "rejection"
                            => /\ calls[c].result.status = "unavailable"
                               /\ calls[c].result.error =
                                    (IF calls[c].answer.error # <<>> THEN calls[c].answer.error
                                     ELSE IF calls[c].answer.message # <<>>
                                          THEN calls[c].answer.message
                                          ELSE <<"Unknown", "error", "occurred">>))
    /\ [][ \A c \in Callers :
             (calls'[c].op = "testProvider" /\ calls'[c] # calls[c] /\ calls[c].pc # "probing")
             => calls'[c].pc = "probing" /\ calls'[c].live = 1 ]_vars

\* p1 was probed while the unexpired cache listed it as available, and the
\* rejected post came back as unavailable with the error message
C18_Witness ==
    \E c \in Callers :
        /\ calls[c].op = "testProvider"
        /\ calls[c].pc = "returned"
        /\ calls[c].arg = "p1"
        /\ calls[c].answer.kind = "rejection"
        /\ calls[c].result.status = "unavailable"
        /\ calls[c].result.error = <<"Network", "Error">>
        /\ providersCache = <<Provider("p1", "available")>>
        /\ now < cacheExpiry

----------------------------------------------------------------------------
(* Properties of getFallbackProviders                                       *)

\* the place of the provider p in the roster
PlaceIn(roster, p) == CHOOSE i \in 1..Len(roster) : roster[i] = p

\* C25: getFallbackProviders(excludeIds) returns exactly the usable providers
\* of the roster whose id is not among excludeIds, each once, in ascending
\* order of consecutiveFailures, those with equal consecutiveFailures in
\* their roster order.
C25_FallbackList ==
    lastCall.op = "getFallbackProviders"
    => LET roster == IF lastCall.failed THEN <<>> ELSE lastCall.roster
           list == lastCall.list
           expected == { p \in Range(roster) :
                           Usable(providerHealth, p) /\ p.id \notin lastCall.excludeProviders }
       IN  /\ Range(list) = expected
           /\ Len(list) = Cardinality(expected)
           /\ \A i \in 1..Len(list), j \in 1..Len(list) :
                  i < j => /\ Failures(providerHealth, list[i].id)
                                <= Failures(providerHealth, list[j].id)
                           /\ Failures(providerHealth, list[i].id)
                                = Failures(providerHealth, list[j].id)
                              => PlaceIn(roster, list[i]) < PlaceIn(roster, list[j])

\* both providers of the roster are usable and p1 is excluded: bing is the
\* only fallback
C25_Witness ==
    /\ lastCall.op = "getFallbackProviders"
    /\ lastCall.excludeProviders = {"p1"}
    /\ lastCall.roster = <<Provider("p1", "available"), Provider("bing", "available")>>
    /\ lastCall.list = <<Provider("bing", "available")>>

\* nothing is excluded: the two usable providers come back in roster order
C25_WitnessTie ==
    /\ lastCall.op = "getFallbackProviders"
    /\ lastCall.excludeProviders = {}
    /\ lastCall.list = <<Provider("bing", "available"), Provider("p1", "available")>>

----------------------------------------------------------------------------
(* Properties of the health sweep and of its timer                          *)

\* the probe of providerId settles in this step
ProbeSettles(providerId) ==
    /\ sweep.pc = "probing"
    /\ providerId \in sweep.pending
    /\ providerId \notin sweep'.pending

\* the outcome of the probe that settles in this step is in the record of
\* providerId, and no other record is touched
OutcomeRecorded(providerId) ==
    /\ Has(providerHealth', providerId)
    /\ providerHealth'[providerId].isHealthy = (lastCall'.op = "sweepProbeSuccess")
    /\ providerHealth'[providerId].consecutiveFailures =
         (IF lastCall'.op = "sweepProbeSuccess" THEN 0
          ELSE Failures(providerHealth, providerId) + 1)
    /\ providerHealth'[providerId].error =
         (IF lastCall'.op = "sweepProbeSuccess" THEN Undefined ELSE lastCall'.error)
    /\ \A other \in ProviderIds \ {providerId} :
           RecordOf(providerHealth', other) = RecordOf(providerHealth, other)

\* C26: a health sweep issues exactly one probe for every provider the roster
\* lists, whatever its status, all of them before any has settled; the
\* outcome of every probe is recorded whatever became of its siblings; and
\* the sweep ends without an error, also when probes or the roster fetch fail.
C26_SweepProbesAll ==
    /\ [](/\ ~sweep.threw
          /\ (sweep.pc \in {"probing", "done"} /\ ~sweep.failed)
               => sweep.issued = [ i \in 1..Len(sweep.roster) |-> sweep.roster[i].id ]
          /\ sweep.failed => sweep.pc = "done" /\ sweep.issued = <<>>
          /\ sweep.pending \subseteq Range(sweep.issued)
          /\ sweep.pc = "probing" <=> sweep.pending # {})
    /\ [][ (sweep.pc = "fetching" /\ sweep'.pc # "fetching")
           => /\ sweep'.pending = Range(sweep'.issued)
              /\ providerHealth' = providerHealth ]_vars
    /\ [][ \A providerId \in ProviderIds :
             ProbeSettles(providerId)
             => /\ sweep'.pending = sweep.pending \ {providerId}
                /\ sweep'.issued = sweep.issued
                /\ OutcomeRecorded(providerId) ]_vars

\* the roster listed p1 as unavailable and bing as available; both were
\* probed, bing's probe failed first, p1's then succeeded, the sweep is over
C26_Witness ==
    /\ sweep.pc = "done"
    /\ sweep.roster = <<Provider("p1", "unavailable"), Provider("bing", "available")>>
    /\ sweep.issued = <<"p1", "bing">>
    /\ lastCall.op = "sweepProbeSuccess"
    /\ lastCall.id = "p1"
    /\ Has(providerHealth, "p1") /\ providerHealth["p1"].isHealthy
    /\ Has(providerHealth, "bing") /\ ~providerHealth["bing"].isHealthy

CancelOps == {"stopPeriodicHealthCheck", "destroy"}

\* C27: after stopPeriodicHealthCheck or destroy no interval timer is left,
\* and the timer starts a sweep only while one is set, which after a
\* cancellation or a construction without health check takes a call of
\* startPeriodicHealthCheck; never more than one interval timer is pending.
C27_CancellationImmediate ==
    /\ [](intervals = IF healthCheckTimer THEN 1 ELSE 0)
    /\ [](lastCall.op \in CancelOps => ~healthCheckTimer /\ intervals = 0)
    /\ [][ lastCall'.op = "timerFires" => healthCheckTimer /\ intervals = 1 ]_vars
    /\ [][ (intervals' > intervals \/ (healthCheckTimer' /\ ~healthCheckTimer))
           => lastCall'.op = "startPeriodicHealthCheck" ]_vars

\* the timer started a sweep and was stopped while the roster was awaited;
\* the sweep goes on and no timer is pending
C27_Witness ==
    /\ lastCall.op = "stopPeriodicHealthCheck"
    /\ sweep.by = "timer"
    /\ sweep.pc = "fetching"
    /\ ~healthCheckTimer
    /\ intervals = 0

TimerOps == {"startPeriodicHealthCheck", "stopPeriodicHealthCheck", "destroy"}

\* C33: never more than one interval timer is live, and one is live exactly
\* while healthCheckTimer is set; startPeriodicHealthCheck leaves exactly one,
\* also when one was live before; stopPeriodicHealthCheck and destroy leave
\* none; stopPeriodicHealthCheck without a timer changes nothing; and no other
\* operation touches the timer, so a timer is pending iff the last of these
\* calls (the constructor's included) was a start.
C33_AtMostOneTimer ==
    /\ [](intervals \in {0, 1} /\ (intervals = 1 <=> healthCheckTimer))
    /\ [](lastCall.op = "startPeriodicHealthCheck" => healthCheckTimer /\ intervals = 1)
    /\ [](lastCall.op \in CancelOps => ~healthCheckTimer /\ intervals = 0)
    /\ [][ lastCall'.op \notin TimerOps => UNCHANGED <<healthCheckTimer, intervals>> ]_vars
    /\ [][ (lastCall'.op = "stopPeriodicHealthCheck" /\ ~healthCheckTimer)
           => UNCHANGED <<providerHealth, selectionStrategy, healthCheckTimer, intervals,
                          now, sweep>> ]_vars

\* startPeriodicHealthCheck was called while the probes of a sweep of the
\* timer are out: one timer is live
C33_Witness ==
    /\ lastCall.op = "startPeriodicHealthCheck"
    /\ healthCheckTimer
    /\ intervals = 1
    /\ sweep.by = "timer"
    /\ sweep.pc = "probing"

\* C28: stopPeriodicHealthCheck and destroy leave the probes in flight in
\* flight, and a probe that settles when the timer is no longer set has its
\* outcome recorded like any other.
C28_InFlightProbesRecorded ==
    /\ [][ lastCall'.op \in CancelOps => sweep' = sweep ]_vars
    /\ [][ \A providerId \in ProviderIds :
             (ProbeSettles(providerId) /\ ~healthCheckTimer)
             => OutcomeRecorded(providerId) /\ ~healthCheckTimer' ]_vars

\* the probes of a sweep of the timer were issued while the timer was set;
\* the timer was cancelled, and then the failure of p1's probe was recorded
C28_Witness ==
    /\ sweep.by = "timer"
    /\ sweep.timerAtIssue
    /\ ~healthCheckTimer
    /\ intervals = 0
    /\ lastCall.op = "sweepProbeFailure"
    /\ lastCall.id = "p1"
    /\ Has(providerHealth, "p1")
    /\ ~providerHealth["p1"].isHealthy
    /\ providerHealth["p1"].consecutiveFailures = 1

\* C29: when destroy returns the manager holds no health record and no
\* interval timer, whatever went before and whatever is still in flight.
C29_DestroyCleansUp ==
    lastCall.op = "destroy"
    => /\ getProviderHealthStatus(providerHealth) = {}
       /\ ~healthCheckTimer
       /\ intervals = 0

\* destroy in the middle of a sweep of the timer: bing's probe had been
\* recorded, p1's is still in flight, and no record and no timer is left
C29_Witness ==
    /\ lastCall.op = "destroy"
    /\ sweep.by = "timer"
    /\ sweep.pc = "probing"
    /\ sweep.issued = <<"p1", "bing">>
    /\ sweep.pending = {"p1"}
    /\ providerHealth = <<>>
    /\ intervals = 0

\* C30: getStatistics returns the number of health records, the number of
\* them with isHealthy true, the difference of the two, the sum of their
\* consecutiveFailures divided by their number (0 when there is none) and the
\* latest of their lastChecked (null when there is none), and changes nothing.
C30_StatisticsExact ==
    /\ [](lastCall.op = "getStatistics"
          => LET stats == lastCall.result
                 tracked == DOMAIN providerHealth
                 n == Cardinality(tracked)
                 healthy == { id \in tracked : providerHealth[id].isHealthy }
                 failures == Failures(providerHealth, "p1") + Failures(providerHealth, "bing")
             IN  /\ stats.totalProviders = n
                 /\ stats.healthyProviders = Cardinality(healthy)
                 /\ stats.unhealthyProviders = n - Cardinality(healthy)
                 /\ stats.averageConsecutiveFailures.den > 0
                 /\ IF n = 0
                    THEN /\ stats.averageConsecutiveFailures.num = 0
                         /\ stats.lastHealthCheck = Null
                    ELSE /\ stats.averageConsecutiveFailures.num * n
                              = failures * stats.averageConsecutiveFailures.den
                         /\ \E id \in tracked :
                                stats.lastHealthCheck = providerHealth[id].lastChecked
                         /\ \A id \in tracked :
                                providerHealth[id].lastChecked <= stats.lastHealthCheck)
    /\ [][ lastCall'.op = "getStatistics"
           => UNCHANGED <<providerHealth, selectionStrategy, healthCheckTimer, intervals,
                          sendVars, regVars, sweepVars, flightVars, stratVars>> ]_vars

\* p1 was reported well at time 0 and bing failed three times, last at
\* time 2: two records, one healthy, 3/2 failures on average, last check at 2
C30_Witness ==
    /\ lastCall.op = "getStatistics"
    /\ lastCall.result.totalProviders = 2
    /\ lastCall.result.healthyProviders = 1
    /\ lastCall.result.unhealthyProviders = 1
    /\ lastCall.result.averageConsecutiveFailures = Fraction(3, 2)
    /\ lastCall.result.lastHealthCheck = 2
    /\ Has(providerHealth, "p1")
    /\ providerHealth["p1"].lastChecked = 0

----------------------------------------------------------------------------
(* Properties of testProviderHealth                                         *)

ProbeOps == {"probeSuccess", "probeFailure"}

\* C31: testProviderHealth(id) records one observation for id: a success iff
\* the probe answered with status available, otherwise (unavailable, rate
\* limited, or a probe that throws) a failure with the error of the probe; it
\* returns the record of id as updated and does not throw.
C31_TestProviderHealth ==
    lastCall.op \in ProbeOps
    => /\ ~lastCall.threw
       /\ Has(providerHealth, lastCall.id)
       /\ lastCall.result = providerHealth[lastCall.id]
       /\ lastCall.result.providerId = lastCall.id
       /\ lastCall.result.isHealthy = (lastCall.answer.status = "available")
       /\ lastCall.result.consecutiveFailures =
            (IF lastCall.answer.status = "available" THEN 0
             ELSE (IF lastCall.pre = NoRecord THEN 0 ELSE lastCall.pre.consecutiveFailures) + 1)
       /\ lastCall.result.error =
            (IF lastCall.answer.status = "available" THEN Undefined ELSE lastCall.answer.error)

\* the probe of p1 threw on top of one recorded failure: the second failure
\* is recorded with the message thrown, and the record is returned
C31_Witness ==
    /\ lastCall.op = "probeFailure"
    /\ lastCall.id = "p1"
    /\ lastCall.answer.status = ProbeThrows
    /\ lastCall.pre # NoRecord
    /\ lastCall.pre.consecutiveFailures = 1
    /\ ~lastCall.threw
    /\ lastCall.result.consecutiveFailures = 2
    /\ lastCall.result.error = "Connection failed"

----------------------------------------------------------------------------
(* Properties of the rotation under preferred selections                    *)

\* C32: a selectProvider that returns the preferred provider leaves the
\* strategy as it was, the cursor of a round robin included; and a round
\* robin called with no available provider returns none and leaves its
\* cursor where it was.
C32_PreferredKeepsRotation ==
    /\ [][ (/\ lastCall'.op = "selectProvider"
            /\ lastCall'.id # Null
            /\ lastCall'.result.id = lastCall'.id)
           => selectionStrategy' = selectionStrategy ]_vars
    /\ [][ (/\ lastCall'.op = "strategy.selectProvider"
            /\ selectionStrategy.kind = "RoundRobinStrategy"
            /\ Available(lastCall'.roster) = <<>>)
           => /\ lastCall'.result = NoProvider
              /\ selectionStrategy' = selectionStrategy ]_vars

\* the round robin stands on 1 after bing, of two usable providers, was asked
\* for and returned
C32_Witness ==
    /\ selectionStrategy = [kind |-> "RoundRobinStrategy", currentIndex |-> 1]
    /\ lastCall.op = "selectProvider"
    /\ lastCall.id = "bing"
    /\ lastCall.result = Provider("bing", "available")
    /\ lastCall.roster = <<Provider("p1", "available"), Provider("bing", "available")>>

\* the round robin stands on 1 after a call with no available provider
C32_WitnessNone ==
    /\ selectionStrategy = [kind |-> "RoundRobinStrategy", currentIndex |-> 1]
    /\ lastCall.op = "strategy.selectProvider"
    /\ lastCall.roster = <<Provider("p1", "unavailable")>>
    /\ lastCall.result = NoProvider

----------------------------------------------------------------------------
(* Properties of the health records                                         *)

ReportOps == SuccessOps \cup FailureOps

\* C36: markProviderSuccess(id), markProviderFailure(id) and
\* testProviderHealth(id) write the record of id and leave the record, or the
\* absence of a record, of every other provider as it was, and the strategy
\* and the timer too.
C36_RecordsIndependent ==
    [][ lastCall'.op \in ReportOps
        => /\ Has(providerHealth', lastCall'.id)
           /\ \A other \in ProviderIds \ {lastCall'.id} :
                 RecordOf(providerHealth', other) = RecordOf(providerHealth, other)
           /\ UNCHANGED <<selectionStrategy, healthCheckTimer, intervals>> ]_vars

\* p1 was reported failed for the first time: the two failures of bing, the
\* cursor of the round robin and the timer are as they were
C36_Witness ==
    /\ lastCall.op = "markProviderFailure"
    /\ lastCall.id = "p1"
    /\ lastCall.pre = NoRecord
    /\ providerHealth["p1"].consecutiveFailures = 1
    /\ Has(providerHealth, "bing")
    /\ providerHealth["bing"].consecutiveFailures = 2
    /\ selectionStrategy = [kind |-> "RoundRobinStrategy", currentIndex |-> 1]
    /\ healthCheckTimer

\* maxConsecutiveFailures options of the constructor
Thresholds == 1..MaxThreshold

----------------------------------------------------------------------------
(* Properties of the selection strategies, each called on its own           *)

\* C21: PriorityStrategy.selectProvider returns the available provider of its
\* input whose id comes earliest in the preference list, the first available
\* provider of the input when no listed provider is available, and none iff
\* no provider is available; with the default list, bing is returned whenever
\* it is available.
C21_PriorityResult ==
    (instance.kind = "PriorityStrategy" /\ select.op = "selectProvider")
    => LET av == Available(select.input)
           order == instance.priorityOrder
           listed == { k \in 1..Len(order) : order[k] \in Ids(av) }
       IN  /\ (select.result = NoProvider) <=> (av = <<>>)
           /\ av # <<>>
                => /\ select.result \in Range(av)
                   /\ listed # {}
                        => \E k \in listed : /\ select.result.id = order[k]
                                              /\ \A j \in listed : k <= j
                   /\ listed = {} => select.result = av[1]
           /\ (order = priorityOrder /\ "bing" \in Ids(av)) => select.result.id = "bing"

\* the default list chose bing although p1 stands before it in the input and
\* is available too
C21_Witness ==
    /\ instance.kind = "PriorityStrategy"
    /\ instance.priorityOrder = priorityOrder
    /\ select.op = "selectProvider"
    /\ select.input = <<Provider("p1", "available"), Provider("bing", "available")>>
    /\ select.result = Provider("bing", "available")

\* C22: with round robin, two consecutive calls made with the same list of at
\* least two available providers never return the same provider, and n
\* consecutive calls with the same list of n available providers return each
\* of them exactly once, whatever calls the strategy served before.
C22_RoundRobinRotation ==
    (instance.kind = "RoundRobinStrategy" /\ Len(run.available) >= 2)
    => LET n == Len(run.available)
           r == run.results
       IN  /\ \A k \in 1..(Len(r) - 1) : r[k] # r[k + 1]
           /\ Len(r) = n
                => \A p \in Range(run.available) :
                       Cardinality({ k \in 1..n : r[k] = p.id }) = 1

\* three calls with the three available providers p1, bing, you, begun with
\* the cursor left on 1 by earlier calls: bing, you, p1
C22_Witness ==
    /\ instance.kind = "RoundRobinStrategy"
    /\ run.available = <<Provider("p1", "available"), Provider("bing", "available"),
                         Provider("you", "available")>>
    /\ run.results = <<"bing", "you", "p1">>

\* C23: a round robin call with n > 0 available providers returns
\* available[cursor mod n] and sets the cursor to (cursor + 1) mod n, so that
\* 0 <= cursor < n afterwards; with no available provider it returns none.
C23_CursorStep ==
    /\ [](instance.kind = "RoundRobinStrategy" => instance.currentIndex >= 0)
    /\ [][ (instance.kind = "RoundRobinStrategy" /\ instance'.kind = "RoundRobinStrategy"
              /\ select'.op = "selectProvider")
           => LET av == Available(select'.input)
                  n == Len(av)
                  cursor == instance.currentIndex
              IN  IF n = 0
                  THEN select'.result = NoProvider
                  ELSE /\ select'.result = av[(cursor % n) + 1]
                       /\ instance'.currentIndex = (cursor + 1) % n
                       /\ instance'.currentIndex \in 0..(n - 1) ]_vars

\* the cursor stood on 2: the third of three available providers was returned
\* and the cursor wrapped to 0
C23_Witness ==
    /\ instance.kind = "RoundRobinStrategy"
    /\ select.op = "selectProvider"
    /\ Len(Available(select.input)) = 3
    /\ select.result = Available(select.input)[3]
    /\ instance.currentIndex = 0

\* C24: every strategy returns none or a provider of its input whose status is
\* available, and none iff the input holds no available provider; the random
\* strategy does so for every value of the draw.
C24_ResultIsAvailableMember ==
    select.op = "selectProvider"
    => /\ (select.result = NoProvider) <=> (Available(select.input) = <<>>)
       /\ select.result # NoProvider
            => /\ select.result \in Range(select.input)
               /\ select.result.status = "available"

\* the random strategy drew the last of three providers, the first of which
\* is not available
C24_Witness ==
    /\ instance.kind = "RandomStrategy"
    /\ select.op = "selectProvider"
    /\ Len(select.input) = 3
    /\ select.input[1].status = "rate_limited"
    /\ select.input[2].status = "available"
    /\ select.result = select.input[3]

\* the steps that complete a failed observation while others are in flight
FailureCompletions == {"probeReturnedFailure", "markProviderFailure"}
SuccessCompletions == {"probeReturnedSuccess", "markProviderSuccess"}

\* C37: no health update is lost: with any number of probes and passive
\* reports of a provider in flight together, every one that completes as a
\* failure raises consecutiveFailures of the provider by exactly one over the
\* value held at that moment, in whatever order they complete, and the counter
\* changes at no other step except the reset of a success; so k failures in a
\* row end exactly k higher.
C37_NoLostUpdate ==
    [][ /\ lastCall'.op \in FailureCompletions
           => Failures(providerHealth', lastCall'.id)
                 = Failures(providerHealth, lastCall'.id) + 1
        /\ lastCall'.op \in SuccessCompletions
           => Failures(providerHealth', lastCall'.id) = 0
        /\ \A id \in ProviderIds :
              (lastCall'.op \in FailureCompletions \cup SuccessCompletions
                  => lastCall'.id # id)
              => Failures(providerHealth', id) = Failures(providerHealth, id) ]_vars

\* two probes of p1 were in flight together when p1 had one failure: one of
\* them has come back failed while the probe of the sweep of the first tick
\* is still out, and the counter stands at two
C37_Witness ==
    /\ lastCall.op = "probeReturnedFailure"
    /\ lastCall.id = "p1"
    /\ providerHealth["p1"].consecutiveFailures = 2
    /\ flights.ticks = 2
    /\ flights.fetching = {}
    /\ flights.probes = SetToBag({Flight("p1", 1)})

\* the probes in flight that the sweeps of the timer issued
TimerProbes == { probe \in BagToSet(flights.probes) : probe.tick > 0 }

\* C38 as stated: at most one sweep of the timer is in flight at any time, so
\* no provider has probes of the sweeps of two timer ticks outstanding
\* together.
C38_SweepsNeverOverlap ==
    \A p \in TimerProbes, q \in TimerProbes : p.providerId = q.providerId => p.tick = q.tick

\* C38, amended: every tick of the timer starts one sweep, whatever is
\* outstanding of the sweeps before it, and a sweep probes each provider of
\* its roster once: the probes of one sweep that are in flight are for
\* different providers, and they are out only after its roster has arrived.
C38_OneProbePerSweep ==
    /\ \A probe \in TimerProbes :
          /\ flights.probes[probe] = 1
          /\ probe.tick <= flights.ticks
          /\ probe.tick \notin flights.fetching
    /\ flights.fetching \subseteq 1..flights.ticks
    /\ lastCall.op = "timerFires" => flights.ticks \in flights.fetching

\* the probe of p1 of the sweep of the first tick is still out when the sweep
\* of the second tick has sent its own
C38_Witness ==
    /\ flights.ticks = 2
    /\ flights.fetching = {}
    /\ flights.probes = SetToBag({Flight("p1", 1)}) (+) SetToBag({Flight("p1", 2)})
    /\ lastCall.op = "sweepRoster"

\* C39: every send terminates: when every post settles and every delay
\* elapses, a sendToProvider that was called resolves, after at most 3 posts
\* and 2 delays whatever the outcomes are; and each of two sends running side
\* by side counts its own posts only: its attempt number is the number of
\* posts it has issued.
C39_SendTerminates ==
    /\ [](sendPc # "idle" => <>(sendPc = "done"))
    /\ [](peer.pc # "idle" => <>(peer.pc = "done"))
    /\ [](Len(posts) <= 3 /\ Len(delays) <= 2 /\ peer.posts <= 3 /\ peer.delays <= 2)
    /\ [](sendPc = "done" => sendResult.settled # "pending")
    /\ [](sendPc = "posting" => attempt = Len(posts) + 1)
    /\ [](sendPc \in {"delaying", "done"} => attempt = Len(posts))
    /\ [](peer.pc = "posting" => peer.attempt = peer.posts + 1)
    /\ [](peer.pc \in {"delaying", "done"} => peer.attempt = peer.posts)

\* both sends have resolved after three posts and two delays each, the first
\* one with a failure
C39_Witness ==
    /\ sendPc = "done"
    /\ Len(posts) = 3
    /\ delays = <<1000, 2000>>
    /\ ~sendResult.success
    /\ peer = Peer("done", 3, 3, 2)

====
